---- MODULE Spec2Model ----
(***************************************************************************)
(* Model of the news-scraper discovery-and-extraction core:                *)
(*   - canonicalize_url_clean / _compute_url_hash  (newsspider.py)         *)
(*   - NewsSpider.parse / process_article          (newsspider.py)         *)
(*   - the eight site extractors                   (extractors/*.py)       *)
(* Text is modelled as a sequence of one-character strings, so that        *)
(* parsing, splitting, stripping, quoting and re-assembly are computed     *)
(* character by character the way the Python code computes them.           *)
(***************************************************************************)
EXTENDS Naturals, Integers, Sequences, FiniteSets, TLC

VARIABLES
    \* canonicalizer: the URL u, its variant v, their canonical forms
    u, v, cpc, canonU, canonV, recanonU,
    \* spider: its configuration, the response being parsed, what the page
    \* holds (newspaper3k's article, author markup, links), what parse yielded
    spider, resp, art, markup, hrefs, items, requests, spc,
    \* extractors: the site, the page, the arguments of a direct construction,
    \* the result of extract() or of the construction
    site, html, given, extracted, xpc,
    \* fingerprint: the arguments of two calls and what they returned
    callA, callB, printA, printB, fpc,
    \* site spiders: the spider, the page it is given, what its is_article_url
    \* and the base one answer for the page's URL, what is_article_page answers
    crawler, landed, urlVerdict, baseUrlVerdict, pageVerdict, stc,
    \* date parsing: the input, what parse_datetime_from_meta and
    \* parse_iso8601_date made of it
    stamp, metaParsed, isoParsed, dpc,
    \* SinkPipeline: the pipeline object, what each process_item call did,
    \* the items the sink's send was called with, the errors logged
    pipeline, deliveries, sinkLog, logged, ppc,
    \* JsonlSink: self._file, the output file, the items sent to the open
    \* sink since it was last closed, the last call and what it found, the
    \* file objects dropped while open, the number of calls made
    _file, output, window, lastCall, dropped, calls,
    \* failing pages: two article pages whose download or parse raises, and
    \* what parse yielded for each
    pageA, pageB, failedA, failedB, flc

canonVars == <<u, v, cpc, canonU, canonV, recanonU>>

spiderVars == <<spider, resp, art, markup, hrefs, items, requests, spc>>

extractVars == <<site, html, given, extracted, xpc>>

fingerprintVars == <<callA, callB, printA, printB, fpc>>

\* the variables of the parts that came later
siteVars == <<crawler, landed, urlVerdict, baseUrlVerdict, pageVerdict, stc>>

dateVars == <<stamp, metaParsed, isoParsed, dpc>>

pipelineVars == <<pipeline, deliveries, sinkLog, logged, ppc>>

jsonlVars == <<_file, output, window, lastCall, dropped, calls>>

failureVars == <<pageA, pageB, failedA, failedB, flc>>

laterVars == <<fingerprintVars, siteVars, dateVars, pipelineVars, jsonlVars, failureVars>>

vars == <<canonVars, spiderVars, extractVars, laterVars>>

(***************************************************************************)
(* String helpers (Python str methods used by the code).                   *)
(***************************************************************************)
UPPERCASE == <<"A","B","C","D","E","F","G","H","I","J","K","L","M",
               "N","O","P","Q","R","S","T","U","V","W","X","Y","Z">>
LOWERCASE == <<"a","b","c","d","e","f","g","h","i","j","k","l","m",
               "n","o","p","q","r","s","t","u","v","w","x","y","z">>
DIGITS == {"0","1","2","3","4","5","6","7","8","9"}

Range(s) == { s[i] : i \in 1..Len(s) }

\* str.lower() on one character
LowerChar(c) ==
    IF \E i \in 1..26 : UPPERCASE[i] = c
    THEN LOWERCASE[CHOOSE i \in 1..26 : UPPERCASE[i] = c]
    ELSE c

\* str.upper() on one character
UpperChar(c) ==
    IF \E i \in 1..26 : LOWERCASE[i] = c
    THEN UPPERCASE[CHOOSE i \in 1..26 : LOWERCASE[i] = c]
    ELSE c

\* str.lower()
Lower(s) == [i \in 1..Len(s) |-> LowerChar(s[i])]

\* str.upper()
Upper(s) == [i \in 1..Len(s) |-> UpperChar(s[i])]

\* str.find(c, start): 1-based index of the first c at or after start, 0 if none
Find(s, c, start) ==
    IF \E i \in start..Len(s) : s[i] = c
    THEN CHOOSE i \in start..Len(s) : s[i] = c /\ \A j \in start..(i-1) : s[j] # c
    ELSE 0

\* str.rfind(c): 1-based index of the last c, 0 if none
RFind(s, c) ==
    IF \E i \in 1..Len(s) : s[i] = c
    THEN CHOOSE i \in 1..Len(s) : s[i] = c /\ \A j \in (i+1)..Len(s) : s[j] # c
    ELSE 0

\* s[start:] with a 1-based start
From(s, start) == SubSeq(s, start, Len(s))

\* str.rstrip(c)
RECURSIVE RStrip(_, _)
RStrip(s, c) ==
    IF Len(s) > 0 /\ s[Len(s)] = c THEN RStrip(SubSeq(s, 1, Len(s) - 1), c) ELSE s

\* str.split(c): always at least one piece
RECURSIVE Split(_, _)
SplitAt(s, c, i) ==
    IF i = 0 THEN <<s>>
    ELSE <<SubSeq(s, 1, i - 1)>> \o Split(From(s, i + 1), c)

Split(s, c) == SplitAt(s, c, Find(s, c, 1))

\* c.join(pieces)
RECURSIVE Join(_, _)
Join(pieces, c) ==
    IF Len(pieces) = 0 THEN <<>>
    ELSE IF Len(pieces) = 1 THEN pieces[1]
    ELSE pieces[1] \o <<c>> \o Join(Tail(pieces), c)

(***************************************************************************)
(* urllib.parse as used by canonicalize_url_clean.                         *)
(***************************************************************************)

TRACKING_PARAMS ==
    { <<"u","t","m","_","s","o","u","r","c","e">>,
      <<"u","t","m","_","m","e","d","i","u","m">>,
      <<"u","t","m","_","c","a","m","p","a","i","g","n">>,
      <<"u","t","m","_","t","e","r","m">>,
      <<"u","t","m","_","c","o","n","t","e","n","t">>,
      <<"u","t","m","_","i","d">>,
      <<"u","t","m","_","s","o","u","r","c","e","_","p","l","a","t","f","o","r","m">>,
      <<"u","t","m","_","c","r","e","a","t","i","v","e","_","f","o","r","m","a","t">>,
      <<"u","t","m","_","m","a","r","k","e","t","i","n","g","_","t","a","c","t","i","c">>,
      <<"g","c","l","i","d">>,
      <<"g","c","l","s","r","c">>,
      <<"d","c","l","i","d">>,
      <<"f","b","c","l","i","d">>,
      <<"m","s","c","l","k","i","d">>,
      <<"t","w","c","l","i","d">>,
      <<"i","g","s","h","i","d">>,
      <<"m","c","_","c","i","d">>,
      <<"m","c","_","e","i","d">>,
      <<"r","e","f">>,
      <<"r","e","f","e","r","e","r">>,
      <<"r","e","f","e","r","r","e","r">>,
      <<"s","o","u","r","c","e">>,
      <<"_","g","a">>,
      <<"_","g","l">>,
      <<"_","h","s","e","n","c">>,
      <<"_","h","s","m","i">>,
      <<"t","r","k">>,
      <<"t","r","k","I","n","f","o">> }

\* urllib.parse.scheme_chars
scheme_chars == Range(UPPERCASE) \cup Range(LOWERCASE) \cup DIGITS \cup {"+", "-", "."}

\* schemes of urllib.parse.uses_params / uses_netloc that the model's URLs use
uses_params == { <<>>, <<"h","t","t","p">>, <<"h","t","t","p","s">> }
uses_netloc == { <<>>, <<"h","t","t","p">>, <<"h","t","t","p","s">> }

\* urlsplit, last step: "?" separates the path from the query;
\* ok = FALSE stands for the ValueError("Invalid IPv6 URL")
urlsplit_query(scheme, netloc, rest, fragment, q) ==
    [ok       |-> ("[" \in Range(netloc)) = ("]" \in Range(netloc)),
     scheme   |-> scheme,
     netloc   |-> netloc,
     path     |-> IF q > 0 THEN SubSeq(rest, 1, q - 1) ELSE rest,
     query    |-> IF q > 0 THEN From(rest, q + 1) ELSE <<>>,
     fragment |-> fragment]

\* urlsplit: "#" separates the fragment (h is the index of the first "#")
urlsplit_fragment(scheme, netloc, rest, h) ==
    urlsplit_query(scheme, netloc,
                   IF h > 0 THEN SubSeq(rest, 1, h - 1) ELSE rest,
                   IF h > 0 THEN From(rest, h + 1) ELSE <<>>,
                   Find(IF h > 0 THEN SubSeq(rest, 1, h - 1) ELSE rest, "?", 1))

\* _splitnetloc(url, 2): index of the first of "/?#" after the leading "//",
\* one past the end if there is none; 0 if url does not start with "//"
netloc_end(rest) ==
    IF Len(rest) >= 2 /\ rest[1] = "/" /\ rest[2] = "/"
    THEN IF \E k \in 3..Len(rest) : rest[k] \in {"/", "?", "#"}
         THEN CHOOSE k \in 3..Len(rest) :
                  /\ rest[k] \in {"/", "?", "#"}
                  /\ \A m \in 3..(k-1) : rest[m] \notin {"/", "?", "#"}
         ELSE Len(rest) + 1
    ELSE 0

\* urlsplit: the netloc is what follows "//" up to delim
urlsplit_netloc(scheme, rest, delim) ==
    urlsplit_fragment(scheme,
                      IF delim > 0 THEN SubSeq(rest, 3, delim - 1) ELSE <<>>,
                      IF delim > 0 THEN From(rest, delim) ELSE rest,
                      Find(IF delim > 0 THEN From(rest, delim) ELSE rest, "#", 1))

\* urlsplit: index of the colon that ends a scheme, 0 if the URL has no scheme
scheme_end(url, i) ==
    IF /\ i > 1
       /\ url[1] \in Range(UPPERCASE) \cup Range(LOWERCASE)
       /\ \A k \in 1..(i-1) : url[k] \in scheme_chars
    THEN i ELSE 0

urlsplit_scheme(url, scheme, i) ==
    urlsplit_netloc(IF i > 0 THEN Lower(SubSeq(url, 1, i - 1)) ELSE scheme,
                    IF i > 0 THEN From(url, i + 1) ELSE url,
                    netloc_end(IF i > 0 THEN From(url, i + 1) ELSE url))

\* urllib.parse.urlsplit(url, scheme): scheme is the default when url has none
urlsplit_default(url, scheme) ==
    urlsplit_scheme(url, scheme, scheme_end(url, Find(url, ":", 1)))

\* urllib.parse.urlsplit(url)
urlsplit(url) == urlsplit_default(url, <<>>)

\* urllib.parse._splitparams: <<path, params>>; i is the index of the ";"
\* found from the last "/" on (from the start if there is no "/")
splitparams_at(url, i) ==
    IF i = 0 THEN <<url, <<>>>>
    ELSE <<SubSeq(url, 1, i - 1), From(url, i + 1)>>

splitparams(url) ==
    splitparams_at(url, IF "/" \in Range(url) THEN Find(url, ";", RFind(url, "/"))
                        ELSE Find(url, ";", 1))

\* urllib.parse.urlparse: urlsplit, then the params are split off the path
urlparse_params(s, pp) ==
    [ok |-> s.ok, scheme |-> s.scheme, netloc |-> s.netloc, path |-> pp[1],
     params |-> pp[2], query |-> s.query, fragment |-> s.fragment]

urlparse_split(s) ==
    urlparse_params(s, IF s.scheme \in uses_params /\ ";" \in Range(s.path)
                       THEN splitparams(s.path) ELSE <<s.path, <<>>>>)

\* urllib.parse.urlparse(url, scheme)
urlparse_default(url, scheme) == urlparse_split(urlsplit_default(url, scheme))

urlparse(url) == urlparse_default(url, <<>>)

\* urllib.parse.urlunsplit
urlunsplit_netloc(scheme, netloc, url, query, fragment, withNetloc) ==
    (IF Len(scheme) > 0 THEN scheme \o <<":">> ELSE <<>>)
    \o (IF withNetloc THEN <<"/", "/">> \o netloc ELSE <<>>)
    \o (IF withNetloc /\ Len(url) > 0 /\ url[1] # "/" THEN <<"/">> ELSE <<>>)
    \o url
    \o (IF Len(query) > 0 THEN <<"?">> \o query ELSE <<>>)
    \o (IF Len(fragment) > 0 THEN <<"#">> \o fragment ELSE <<>>)

urlunsplit(scheme, netloc, url, query, fragment) ==
    urlunsplit_netloc(scheme, netloc, url, query, fragment,
        \/ Len(netloc) > 0
        \/ /\ Len(scheme) > 0
           /\ scheme \in uses_netloc
           /\ ~(Len(url) >= 2 /\ url[1] = "/" /\ url[2] = "/"))

\* urllib.parse.urlunparse
urlunparse(scheme, netloc, url, params, query, fragment) ==
    urlunsplit(scheme, netloc,
               IF Len(params) > 0 THEN url \o <<";">> \o params ELSE url,
               query, fragment)

\* the percent-escapes that occur in the model's URLs: <<hex pair, character>>
HexTable == { <<<<"2","0">>, " ">>, <<<<"2","3">>, "#">>, <<<<"2","5">>, "%">>,
              <<<<"2","6">>, "&">>, <<<<"2","B">>, "+">>, <<<<"2","F">>, "/">>,
              <<<<"3","B">>, ";">>, <<<<"3","D">>, "=">>, <<<<"3","F">>, "?">>,
              <<<<"5","B">>, "[">>, <<<<"5","F">>, "_">> }

\* characters urllib.parse.quote never escapes (_ALWAYS_SAFE)
ALWAYS_SAFE == Range(UPPERCASE) \cup Range(LOWERCASE) \cup DIGITS \cup {"_", ".", "-", "~"}

\* str.replace(old, new) for one-character old / new
Replace(s, old, new) == [i \in 1..Len(s) |-> IF s[i] = old THEN new ELSE s[i]]

\* urllib.parse.unquote: a "%" followed by a known hex pair becomes the character
RECURSIVE unquote(_)
unquote(s) ==
    IF Len(s) = 0 THEN <<>>
    ELSE IF /\ s[1] = "%"
            /\ Len(s) >= 3
            /\ \E e \in HexTable : e[1] = <<s[2], s[3]>>
         THEN <<(CHOOSE e \in HexTable : e[1] = <<s[2], s[3]>>)[2]>> \o unquote(From(s, 4))
         ELSE <<s[1]>> \o unquote(Tail(s))

\* urllib.parse.quote_plus (safe = ''): space becomes "+", unsafe characters %XX
RECURSIVE quote_plus(_)
quote_plus(s) ==
    IF Len(s) = 0 THEN <<>>
    ELSE (IF s[1] \in ALWAYS_SAFE THEN <<s[1]>>
          ELSE IF s[1] = " " THEN <<"+">>
          ELSE <<"%">> \o (CHOOSE e \in HexTable : e[2] = s[1])[1])
         \o quote_plus(Tail(s))

\* one "name=value" field of parse_qsl(qs, keep_blank_values=False): fields
\* without "=" (eq = 0) or with a blank value are dropped
parse_field(nv, eq) ==
    IF Len(nv) = 0 \/ eq = 0 \/ eq = Len(nv) THEN <<>>
    ELSE << <<unquote(Replace(SubSeq(nv, 1, eq - 1), "+", " ")),
              unquote(Replace(From(nv, eq + 1), "+", " "))>> >>

RECURSIVE parse_fields(_)
parse_fields(pieces) ==
    IF Len(pieces) = 0 THEN <<>>
    ELSE parse_field(pieces[1], Find(pieces[1], "=", 1)) \o parse_fields(Tail(pieces))

\* urllib.parse.parse_qsl: sequence of <<name, value>>
parse_qsl(qs) == IF Len(qs) = 0 THEN <<>> ELSE parse_fields(Split(qs, "&"))

\* parsed_result[name].append(value) / parsed_result[name] = [value]
add_pair(dict, name, value) ==
    IF \E i \in 1..Len(dict) : dict[i][1] = name
    THEN [i \in 1..Len(dict) |->
             IF dict[i][1] = name THEN <<name, Append(dict[i][2], value)>> ELSE dict[i]]
    ELSE Append(dict, <<name, <<value>>>>)

\* urllib.parse.parse_qs: a dict in first-insertion order of its keys,
\* modelled as a sequence of <<key, list of values>>
RECURSIVE group_pairs(_, _)
group_pairs(pairs, dict) ==
    IF Len(pairs) = 0 THEN dict
    ELSE group_pairs(Tail(pairs), add_pair(dict, pairs[1][1], pairs[1][2]))

parse_qs(qs) == group_pairs(parse_qsl(qs), <<>>)

\* urllib.parse.urlencode(dict, doseq=True): the dict's own order, no sorting
RECURSIVE encode_values(_, _)
encode_values(k, vs) ==
    IF Len(vs) = 0 THEN <<>>
    ELSE <<quote_plus(k) \o <<"=">> \o quote_plus(vs[1])>> \o encode_values(k, Tail(vs))

RECURSIVE encode_items(_)
encode_items(dict) ==
    IF Len(dict) = 0 THEN <<>>
    ELSE encode_values(dict[1][1], dict[1][2]) \o encode_items(Tail(dict))

urlencode(dict) == Join(encode_items(dict), "&")

(***************************************************************************)
(* Canonicalizer (newsspider.py).                                          *)
(***************************************************************************)
\* k.lower() not in TRACKING_PARAMS
is_tracking(k) == Lower(k) \in TRACKING_PARAMS

\* the dict comprehension: keep the keys that are not tracking keys
RECURSIVE filter_params(_)
filter_params(dict) ==
    IF Len(dict) = 0 THEN <<>>
    ELSE (IF is_tracking(dict[1][1]) THEN <<>> ELSE <<dict[1]>>)
         \o filter_params(Tail(dict))

\* parsed.path.rstrip("/") if parsed.path != "/" else "/"
clean_path(path) == IF path # <<"/">> THEN RStrip(path, "/") ELSE <<"/">>

\* urlencode(filtered_params, doseq=True) if filtered_params else ""
clean_query(filtered_params) ==
    IF Len(filtered_params) > 0 THEN urlencode(filtered_params) ELSE <<>>

\* the body of the try block, given parsed = urlparse(url)
canonicalize_parsed(url, parsed) ==
    IF ~parsed.ok THEN url     \* except Exception: return url
    ELSE urlunparse(Lower(parsed.scheme), Lower(parsed.netloc),
                    clean_path(parsed.path), parsed.params,
                    clean_query(filter_params(parse_qs(parsed.query))), <<>>)

canonicalize_url_clean(url) == canonicalize_parsed(url, urlparse(url))

\* hashlib.sha256(...).hexdigest(): modelled as an injective tag of its input
sha256(s) == <<"sha256", s>>

compute_url_hash(url) == sha256(canonicalize_url_clean(url))

(***************************************************************************)
(* Article text (title, body, summary, author names).  These strings are   *)
(* long, so they are kept as runs: << <<c1, n1>>, <<c2, n2>>, ... >> is c1  *)
(* repeated n1 times, then c2 repeated n2 times, ...; each n is positive    *)
(* and neighbouring runs have different characters, so two texts are equal *)
(* exactly when their run sequences are equal.  The str methods below are  *)
(* computed on the runs and give what Python gives on the characters.      *)
(***************************************************************************)
\* Python's None where a str is expected
None == << <<"None", 0>> >>

\* the whitespace characters (str.strip(), \s) that the model's texts contain
WHITESPACE == {" ", "\n", "\t"}

\* a + b on run sequences: zero-length runs vanish, equal neighbours merge
RECURSIVE merge_runs(_, _)
merge_runs(done, todo) ==
    IF Len(todo) = 0 THEN done
    ELSE IF todo[1][2] = 0 THEN merge_runs(done, Tail(todo))
    ELSE IF Len(done) > 0 /\ done[Len(done)][1] = todo[1][1]
         THEN merge_runs([done EXCEPT ![Len(done)] = <<@[1], @[2] + todo[1][2]>>],
                         Tail(todo))
         ELSE merge_runs(Append(done, todo[1]), Tail(todo))

concat(a, b) == merge_runs(<<>>, a \o b)

\* the text of a one-character-per-element string
text_of(s) == merge_runs(<<>>, [i \in 1..Len(s) |-> <<s[i], 1>>])

\* len(t)
RECURSIVE text_len(_)
text_len(t) == IF Len(t) = 0 THEN 0 ELSE t[1][2] + text_len(Tail(t))

\* str.lstrip() / str.rstrip() / str.strip()
RECURSIVE lstrip(_)
lstrip(t) ==
    IF Len(t) > 0 /\ t[1][1] \in WHITESPACE THEN lstrip(Tail(t)) ELSE t

RECURSIVE rstrip_chars(_, _)
rstrip_chars(t, chars) ==
    IF Len(t) > 0 /\ t[Len(t)][1] \in chars
    THEN rstrip_chars(SubSeq(t, 1, Len(t) - 1), chars) ELSE t

strip(t) == rstrip_chars(lstrip(t), WHITESPACE)

\* t[:k]
RECURSIVE text_prefix(_, _)
text_prefix(t, k) ==
    IF Len(t) = 0 \/ k <= 0 THEN <<>>
    ELSE IF t[1][2] >= k THEN << <<t[1][1], k>> >>
    ELSE <<t[1]>> \o text_prefix(Tail(t), k - t[1][2])

\* re.sub(r"\s+", " ", t): every maximal stretch of whitespace becomes one space
RECURSIVE collapse_whitespace(_, _)
collapse_whitespace(done, todo) ==
    IF Len(todo) = 0 THEN done
    ELSE IF todo[1][1] \in WHITESPACE
         THEN IF Len(done) > 0 /\ done[Len(done)] = <<" ", 1>>
              THEN collapse_whitespace(done, Tail(todo))
              ELSE collapse_whitespace(Append(done, <<" ", 1>>), Tail(todo))
         ELSE collapse_whitespace(Append(done, todo[1]), Tail(todo))

\* t.split("\n"): the lines; a run of n newlines ends the current line and
\* is followed by n - 1 empty lines
RECURSIVE split_lines(_, _, _)
split_lines(lines, cur, todo) ==
    IF Len(todo) = 0 THEN Append(lines, cur)
    ELSE IF todo[1][1] = "\n"
         THEN split_lines(Append(lines, cur) \o [i \in 1..(todo[1][2] - 1) |-> <<>>],
                          <<>>, Tail(todo))
         ELSE split_lines(lines, Append(cur, todo[1]), Tail(todo))

\* re.split(r"(?<=[.!?])\s+", t): a stretch of whitespace that follows one of
\* ".", "!", "?" separates two sentences; other whitespace stays in place
RECURSIVE split_sentences(_, _, _)
split_sentences(sentences, cur, todo) ==
    IF Len(todo) = 0 THEN Append(sentences, cur)
    ELSE IF /\ todo[1][1] \in WHITESPACE
            /\ Len(cur) > 0
            /\ cur[Len(cur)][1] \in {".", "!", "?"}
         THEN split_sentences(Append(sentences, cur), <<>>, lstrip(todo))
         ELSE split_sentences(sentences, Append(cur, todo[1]), Tail(todo))

\* " ".join(pieces)
RECURSIVE join_spaces(_)
join_spaces(pieces) ==
    IF Len(pieces) = 0 THEN <<>>
    ELSE IF Len(pieces) = 1 THEN pieces[1]
    ELSE concat(concat(pieces[1], << <<" ", 1>> >>), join_spaces(Tail(pieces)))

\* ", ".join(pieces)
RECURSIVE join_commas(_)
join_commas(pieces) ==
    IF Len(pieces) = 0 THEN <<>>
    ELSE IF Len(pieces) = 1 THEN pieces[1]
    ELSE concat(concat(pieces[1], << <<",", 1>>, <<" ", 1>> >>), join_commas(Tail(pieces)))

\* t.rsplit(" ", 1)[0]: what precedes the last space, all of t if it has none
RECURSIVE before_last_space(_, _)
before_last_space(t, i) ==
    IF i = 0 THEN t
    ELSE IF t[i][1] = " "
         THEN (IF t[i][2] > 1 THEN SubSeq(t, 1, i - 1) \o << <<" ", t[i][2] - 1>> >>
               ELSE SubSeq(t, 1, i - 1))
         ELSE before_last_space(t, i - 1)

rsplit_space(t) == before_last_space(t, Len(t))

(***************************************************************************)
(* Link handling of NewsSpider.parse (newsspider.py).                      *)
(***************************************************************************)
\* str.startswith / str.endswith / "sub in s"
StartsWith(s, p) == Len(s) >= Len(p) /\ SubSeq(s, 1, Len(p)) = p

EndsWith(s, p) == Len(s) >= Len(p) /\ SubSeq(s, Len(s) - Len(p) + 1, Len(s)) = p

Contains(s, sub) ==
    \E i \in 1..(Len(s) - Len(sub) + 1) : SubSeq(s, i, i + Len(sub) - 1) = sub

\* str.partition(c)[0], str.partition(c)[2], str.rpartition(c)[2]
before_first(s, c) == IF c \in Range(s) THEN SubSeq(s, 1, Find(s, c, 1) - 1) ELSE s

after_first(s, c) == IF c \in Range(s) THEN From(s, Find(s, c, 1) + 1) ELSE <<>>

after_last(s, c) == IF c \in Range(s) THEN From(s, RFind(s, c) + 1) ELSE s

\* schemes of urllib.parse.uses_relative that the model's URLs use
uses_relative == { <<>>, <<"h","t","t","p">>, <<"h","t","t","p","s">> }

\* what urljoin gives when urlparse raises ValueError
ValueError == <<"ValueError">>

NonEmpty(s) == Len(s) > 0

\* urljoin: the last item of the base path is not a directory and is dropped
base_parts(parts) ==
    IF parts[Len(parts)] # <<>> THEN SubSeq(parts, 1, Len(parts) - 1) ELSE parts

\* urljoin: segments[1:-1] = filter(None, segments[1:-1])
filter_inner(segments) ==
    IF Len(segments) <= 2 THEN segments
    ELSE <<segments[1]>>
         \o SelectSeq(SubSeq(segments, 2, Len(segments) - 1), NonEmpty)
         \o <<segments[Len(segments)]>>

\* urljoin: ".." removes the last resolved segment, "." is skipped
RECURSIVE resolve_segments(_, _)
resolve_segments(resolved, segments) ==
    IF Len(segments) = 0 THEN resolved
    ELSE IF segments[1] = <<".",".">>
         THEN resolve_segments(IF Len(resolved) > 0
                               THEN SubSeq(resolved, 1, Len(resolved) - 1)
                               ELSE resolved, Tail(segments))
    ELSE IF segments[1] = <<".">> THEN resolve_segments(resolved, Tail(segments))
    ELSE resolve_segments(Append(resolved, segments[1]), Tail(segments))

\* urljoin: '/'.join(resolved_path) or '/'
resolved_path(segments) ==
    IF Join(resolve_segments(<<>>, segments)
            \o (IF segments[Len(segments)] \in { <<".">>, <<".",".">> } THEN << <<>> >> ELSE <<>>),
            "/") = <<>>
    THEN <<"/">>
    ELSE Join(resolve_segments(<<>>, segments)
              \o (IF segments[Len(segments)] \in { <<".">>, <<".",".">> } THEN << <<>> >> ELSE <<>>),
              "/")

\* urljoin, once base (b) and url (r, parsed with the base's scheme as the
\* default) are parsed
urljoin_parsed(url, b, r) ==
    IF ~b.ok \/ ~r.ok THEN ValueError
    ELSE IF r.scheme # b.scheme \/ r.scheme \notin uses_relative THEN url
    ELSE IF r.scheme \in uses_netloc /\ Len(r.netloc) > 0
         THEN urlunparse(r.scheme, r.netloc, r.path, r.params, r.query, r.fragment)
    ELSE IF Len(r.path) = 0 /\ Len(r.params) = 0
         THEN urlunparse(r.scheme,
                         IF r.scheme \in uses_netloc THEN b.netloc ELSE r.netloc,
                         b.path, b.params,
                         IF Len(r.query) = 0 THEN b.query ELSE r.query,
                         r.fragment)
    ELSE urlunparse(r.scheme,
                    IF r.scheme \in uses_netloc THEN b.netloc ELSE r.netloc,
                    resolved_path(IF r.path # <<>> /\ r.path[1] = "/"
                                  THEN Split(r.path, "/")
                                  ELSE filter_inner(base_parts(Split(b.path, "/"))
                                                    \o Split(r.path, "/"))),
                    r.params, r.query, r.fragment)

urljoin_base(url, b) == urljoin_parsed(url, b, urlparse_default(url, b.scheme))

\* response.urljoin(href) = urllib.parse.urljoin(response.url, href)
urljoin(base, url) ==
    IF Len(url) = 0 THEN base
    ELSE IF Len(base) = 0 THEN url
    ELSE urljoin_base(url, urlparse(base))

\* ParseResult.hostname: the netloc without userinfo and port, lowercased up
\* to a "%" zone; "" stands for None (the caller takes `hostname or ""`)
host_of(hostinfo) ==
    IF "[" \in Range(hostinfo) THEN before_first(after_first(hostinfo, "["), "]")
    ELSE before_first(hostinfo, ":")

lower_host(host) ==
    Lower(before_first(host, "%"))
    \o (IF "%" \in Range(host) THEN <<"%">> \o after_first(host, "%") ELSE <<>>)

hostname(netloc) == lower_host(host_of(after_last(netloc, "@")))

\* hostname == domain or hostname.endswith(f".{domain}")
domain_matches(host, domain) == host = domain \/ EndsWith(host, <<".">> \o domain)

same_domain_parsed(parsed, allowed_domains) ==
    /\ parsed.ok         \* except Exception: return False
    /\ \E i \in 1..Len(allowed_domains) :
           domain_matches(hostname(parsed.netloc), allowed_domains[i])

\* NewsSpider._is_same_domain
is_same_domain(url, allowed_domains) == same_domain_parsed(urlparse(url), allowed_domains)

\* NewsSpider.FEED_PATTERNS
FEED_PATTERNS == << <<"r","s","s">>, <<"f","e","e","d">>, <<"s","i","t","e","m","a","p">>, <<"a","t","o","m">> >>

\* NewsSpider.is_valid_url
is_valid_url(url) ==
    /\ (StartsWith(url, <<"h","t","t","p",":","/","/">>) \/ StartsWith(url, <<"h","t","t","p","s",":","/","/">>))
    /\ \A i \in 1..Len(FEED_PATTERNS) : ~Contains(Lower(url), FEED_PATTERNS[i])

\* NewsSpider.SECTION_DENY_PATTERNS.  <<"root", w>> is the pattern ^/w/?$,
\* <<"prefix", p>> is the pattern ^p
SECTION_DENY_PATTERNS ==
    << <<"root", <<"n","e","w","s">>>>, <<"root", <<"w","o","r","l","d">>>>, <<"root", <<"b","u","s","i","n","e","s","s">>>>,
       <<"root", <<"m","a","r","k","e","t","s">>>>, <<"root", <<"t","e","c","h","n","o","l","o","g","y">>>>, <<"root", <<"p","o","l","i","t","i","c","s">>>>,
       <<"root", <<"o","p","i","n","i","o","n">>>>, <<"root", <<"l","a","t","e","s","t">>>>, <<"root", <<"u","s">>>>,
       <<"root", <<"u","k">>>>, <<"root", <<"s","p","o","r","t">>>>, <<"root", <<"s","p","o","r","t","s">>>>,
       <<"root", <<"e","n","t","e","r","t","a","i","n","m","e","n","t">>>>, <<"root", <<"l","i","f","e","s","t","y","l","e">>>>,
       <<"root", <<"h","e","a","l","t","h">>>>, <<"root", <<"s","c","i","e","n","c","e">>>>,
       <<"prefix", <<"/","s","e","c","t","i","o","n","/">>>>, <<"prefix", <<"/","h","u","b","/">>>>,
       <<"prefix", <<"/","t","o","p","i","c","/">>>>, <<"prefix", <<"/","t","o","p","i","c","s","/">>>>,
       <<"prefix", <<"/","t","a","g","/">>>>, <<"prefix", <<"/","c","a","t","e","g","o","r","y","/">>>>,
       <<"prefix", <<"/","a","u","t","h","o","r","/">>>>, <<"prefix", <<"/","s","e","a","r","c","h">>>>,
       <<"root", <<"v","i","d","e","o">>>>, <<"root", <<"v","i","d","e","o","s">>>>, <<"root", <<"l","i","v","e">>>>,
       <<"root", <<"p","o","d","c","a","s","t">>>>, <<"root", <<"p","o","d","c","a","s","t","s">>>>,
       <<"home", <<>>>> >>

\* re.match(pattern, path, re.IGNORECASE) for the patterns above, given the
\* lowercased path
re_match(pattern, lowered) ==
    IF pattern[1] = "root"
    THEN lowered \in { <<"/">> \o pattern[2], <<"/">> \o pattern[2] \o <<"/">> }
    ELSE IF pattern[1] = "prefix" THEN StartsWith(lowered, pattern[2])
    ELSE lowered \in { <<>>, <<"/">> }        \* ^/?$

\* for pattern in self.SECTION_DENY_PATTERNS: if re.match(...): return False
is_section_path(lowered) ==
    \E i \in 1..Len(SECTION_DENY_PATTERNS) : re_match(SECTION_DENY_PATTERNS[i], lowered)

\* s[i..i+n-1] are n digits
digits_at(s, i, n) == i + n - 1 <= Len(s) /\ \A k \in i..(i + n - 1) : s[k] \in DIGITS

\* s[i..] starts with /dddd/dd/dd/
date_at(s, i) ==
    /\ i + 11 <= Len(s)
    /\ s[i] = "/" /\ digits_at(s, i + 1, 4)
    /\ s[i + 5] = "/" /\ digits_at(s, i + 6, 2)
    /\ s[i + 8] = "/" /\ digits_at(s, i + 9, 2)
    /\ s[i + 11] = "/"

\* re.search(r"/\d{4}/\d{2}/\d{2}/", path)
has_date(path) == \E i \in 1..Len(path) : date_at(path, i)

\* re.search(r"/\d{4}/\d{2}/\d{2}/.+", path)
has_date_and_more(path) == \E i \in 1..Len(path) : date_at(path, i) /\ i + 11 < Len(path)

\* the number of digits at the end of s
RECURSIVE trailing_digits(_)
trailing_digits(s) ==
    IF Len(s) > 0 /\ s[Len(s)] \in DIGITS
    THEN 1 + trailing_digits(SubSeq(s, 1, Len(s) - 1)) ELSE 0

\* re.search(r'-\d{6,}$', s)
ends_with_id_of(s, n) == n >= 6 /\ Len(s) > n /\ s[Len(s) - n] = "-"

ends_with_id(s) == ends_with_id_of(s, trailing_digits(s))

\* re.search(r'-\d{6,}\.html?$', path)
ends_with_id_html(path) ==
    \/ (EndsWith(path, <<".","h","t","m","l">>) /\ ends_with_id(SubSeq(path, 1, Len(path) - 5)))
    \/ (EndsWith(path, <<".","h","t","m">>) /\ ends_with_id(SubSeq(path, 1, Len(path) - 4)))

\* ([a-z0-9]+-){4,}[a-z0-9]+ matches all of slug: at least five non-empty
\* pieces of letters and digits, separated by "-"
is_long_slug_pieces(pieces) ==
    /\ Len(pieces) >= 5
    /\ \A i \in 1..Len(pieces) :
           /\ Len(pieces[i]) > 0
           /\ Range(pieces[i]) \subseteq Range(LOWERCASE) \cup DIGITS

is_long_slug(slug) == is_long_slug_pieces(Split(slug, "-"))

\* re.search(r'/([a-z0-9]+-){4,}[a-z0-9]+/?$', path): the slug is what follows
\* the last "/" of the path, an optional final "/" aside
has_long_slug_in(body) ==
    "/" \in Range(body) /\ is_long_slug(after_last(body, "/"))

has_long_slug(path) ==
    has_long_slug_in(IF Len(path) > 0 /\ path[Len(path)] = "/"
                     THEN SubSeq(path, 1, Len(path) - 1) ELSE path)

\* the rest of is_article_url, given path = parsed.path.lower()
is_article_path(path) ==
    IF is_section_path(Lower(path)) THEN FALSE
    ELSE IF Contains(path, <<"/","a","r","t","i","c","l","e","/">>) \/ Contains(path, <<"/","a","r","t","i","c","l","e","s","/">>) THEN TRUE
    ELSE IF has_date(path) THEN TRUE
    ELSE IF ends_with_id(path) \/ ends_with_id_html(path) THEN TRUE
    ELSE IF has_long_slug(path) THEN TRUE
    ELSE IF StartsWith(path, <<"/","n","e","w","s","/">>) /\ Len(path) > 6 /\ Len(path) > 10 THEN TRUE
    ELSE IF Len(RStrip(path, "/")) < 15 THEN FALSE
    ELSE TRUE

is_article_url_parsed(parsed) ==
    IF ~parsed.ok THEN FALSE       \* except Exception: return False
    ELSE is_article_path(Lower(parsed.path))

\* NewsSpider.is_article_url
is_article_url(url) == is_article_url_parsed(urlparse(url))

\* the last step of is_article_page: the URL strongly suggests an article
url_suggests_article(path) ==
    \/ Contains(path, <<"/","a","r","t","i","c","l","e","/">>)
    \/ Contains(path, <<"/","a","r","t","i","c","l","e","s","/">>)
    \/ has_date_and_more(path)

\* NewsSpider.is_article_page, given what self.is_article_url(url) answers
\* (a subclass may override is_article_url)
is_article_page_of(response, article_url) ==
    IF \/ Contains(Lower(response.content_type), <<"x","m","l">>)
       \/ Contains(Lower(response.content_type), <<"j","s","o","n">>)
    THEN FALSE
    ELSE IF ~article_url THEN FALSE
    ELSE IF response.og_type = "article" THEN TRUE
    ELSE IF response.has_article_tag THEN TRUE
    ELSE IF response.has_article_indicator THEN TRUE
    ELSE url_suggests_article(Lower(urlparse(response.url).path))

\* NewsSpider.is_article_page
is_article_page(response) == is_article_page_of(response, is_article_url(response.url))

(***************************************************************************)
(* Article processing of NewsSpider.process_article (newsspider.py).       *)
(***************************************************************************)
MIN_ARTICLE_TEXT_LENGTH == 250

SUMMARY_MAX_CHARS == 512

MAX_FOLLOW_PER_PAGE == 100

\* normalize_whitespace
normalize_whitespace(text) ==
    IF text = None \/ text = <<>> THEN None
    ELSE IF strip(collapse_whitespace(<<>>, text)) = <<>> THEN None
    ELSE strip(collapse_whitespace(<<>>, text))

\* a value that may be missing: <<>> is None, <<x>> is x
Missing == <<>>

\* calendar arithmetic of datetime
is_leap(year) == (year % 4 = 0 /\ year % 100 # 0) \/ year % 400 = 0

days_in_month(year, month) ==
    IF month = 2 THEN (IF is_leap(year) THEN 29 ELSE 28)
    ELSE IF month \in {4, 6, 9, 11} THEN 30 ELSE 31

prev_day(dt) ==
    IF dt.day > 1 THEN [dt EXCEPT !.day = @ - 1]
    ELSE IF dt.month > 1
         THEN [dt EXCEPT !.month = @ - 1, !.day = days_in_month(dt.year, dt.month - 1)]
         ELSE [dt EXCEPT !.year = @ - 1, !.month = 12, !.day = 31]

next_day(dt) ==
    IF dt.day < days_in_month(dt.year, dt.month) THEN [dt EXCEPT !.day = @ + 1]
    ELSE IF dt.month < 12 THEN [dt EXCEPT !.month = @ + 1, !.day = 1]
         ELSE [dt EXCEPT !.year = @ + 1, !.month = 1, !.day = 1]

\* the wall clock of dt moved to minute-of-day m, which may lie in the day
\* before or after
at_minute(dt, m) ==
    IF m < 0
    THEN [prev_day(dt) EXCEPT !.hour = (m + 1440) \div 60, !.minute = (m + 1440) % 60]
    ELSE IF m >= 1440
    THEN [next_day(dt) EXCEPT !.hour = (m - 1440) \div 60, !.minute = (m - 1440) % 60]
    ELSE [dt EXCEPT !.hour = m \div 60, !.minute = m % 60]

\* dt.replace(tzinfo=timezone.utc) for a naive dt, dt.astimezone(timezone.utc)
\* for an aware one (utcoffset in minutes)
to_utc(dt) ==
    IF ~dt.aware THEN [dt EXCEPT !.aware = TRUE, !.utcoffset = 0]
    ELSE [at_minute(dt, dt.hour * 60 + dt.minute - dt.utcoffset) EXCEPT !.utcoffset = 0]

\* astimezone raises OverflowError when the result leaves years 1..9999
in_range(dt) == dt.year >= 1 /\ dt.year <= 9999

DIGIT_CHARS == <<"0","1","2","3","4","5","6","7","8","9">>

RECURSIVE decimal(_)
decimal(n) ==
    IF n < 10 THEN <<DIGIT_CHARS[n + 1]>>
    ELSE decimal(n \div 10) \o <<DIGIT_CHARS[(n % 10) + 1]>>

two_digits(n) == <<DIGIT_CHARS[(n \div 10) + 1], DIGIT_CHARS[(n % 10) + 1]>>

\* dt.strftime("%Y-%m-%dT%H:%M:%SZ"); %Y is not zero-padded by the C library
strftime(dt) ==
    text_of(decimal(dt.year) \o <<"-">> \o two_digits(dt.month) \o <<"-">>
            \o two_digits(dt.day) \o <<"T">> \o two_digits(dt.hour) \o <<":">>
            \o two_digits(dt.minute) \o <<":">> \o two_digits(dt.second) \o <<"Z">>)

\* parse_iso8601_date for a datetime or None: [raised, value]
parse_iso8601_date(date_input) ==
    IF date_input = Missing THEN [raised |-> FALSE, value |-> None]
    ELSE IF ~in_range(to_utc(date_input[1])) THEN [raised |-> TRUE, value |-> None]
    ELSE [raised |-> FALSE, value |-> strftime(to_utc(date_input[1]))]

\* NewsSpider._compute_url_hash
_compute_url_hash(url) == sha256(canonicalize_url_clean(url))

\* x or ''
or_empty(text) == IF text = None THEN <<>> ELSE text

BAR == << <<"|", 1>> >>

\* a fingerprint over the whole text, and over the source as well
fingerprint_of_all(title, published_at, source, text) ==
    IF text # None /\ text_len(text) > 0
    THEN sha256(concat(concat(concat(concat(or_empty(title), BAR), text), BAR), source))
    ELSE sha256(concat(concat(or_empty(title), BAR), or_empty(published_at)))

\* NewsSpider._compute_fingerprint
_compute_fingerprint(title, published_at, source, text) ==
    IF text # None /\ text_len(text) > 0
    THEN sha256(concat(concat(or_empty(title), BAR), text_prefix(text, 2000)))
    ELSE sha256(concat(concat(concat(concat(or_empty(title), BAR),
                                     or_empty(published_at)), BAR), source))

\* the number of lines with len(line.strip()) < 30
short_lines(lines) == Cardinality({ i \in 1..Len(lines) : text_len(strip(lines[i])) < 30 })

\* short_lines / len(lines) > 0.7 when len(lines) > 10
looks_like_nav_junk(lines) == Len(lines) > 10 /\ short_lines(lines) * 10 > 7 * Len(lines)

\* NewsSpider._validate_article_content
_validate_article_content(article) ==
    IF article.title = <<>> \/ text_len(strip(article.title)) = 0 THEN FALSE
    ELSE IF text_len(strip(article.text)) < MIN_ARTICLE_TEXT_LENGTH THEN FALSE
    ELSE IF looks_like_nav_junk(split_lines(<<>>, <<>>, strip(article.text))) THEN FALSE
    ELSE TRUE

\* head[:n] of a list
first_n(seq, n) == SubSeq(seq, 1, IF Len(seq) < n THEN Len(seq) ELSE n)

\* the truncation step of _get_summary_with_metadata
truncate_at_word(normalized, truncated) ==
    IF text_len(truncated) < text_len(normalized)
    THEN concat(rstrip_chars(truncated, {".", ",", "!", "?", ";", ":"}), << <<".", 3>> >>)
    ELSE truncated

summary_of_normalized(normalized) ==
    IF normalized = None THEN <<None, FALSE>>
    ELSE IF text_len(normalized) > SUMMARY_MAX_CHARS
         THEN <<truncate_at_word(normalized,
                                 rsplit_space(text_prefix(normalized, SUMMARY_MAX_CHARS))),
                TRUE>>
         ELSE <<normalized, FALSE>>

\* NewsSpider._get_summary_with_metadata: <<summary, summary_truncated>>
_get_summary_with_metadata(article) ==
    IF strip(article.summary) = <<>> \/ text_len(strip(article.summary)) < 50
    THEN IF strip(article.text) = <<>> THEN <<None, FALSE>>
         ELSE summary_of_normalized(normalize_whitespace(
                  join_spaces(first_n(split_sentences(<<>>, <<>>, strip(article.text)), 5))))
    ELSE summary_of_normalized(normalize_whitespace(strip(article.summary)))

\* [a.strip() for a in article.authors if a and a.strip()]
RECURSIVE valid_authors(_)
valid_authors(authors) ==
    IF Len(authors) = 0 THEN <<>>
    ELSE (IF strip(authors[1]) # <<>> THEN <<strip(authors[1])>> ELSE <<>>)
         \o valid_authors(Tail(authors))

\* x and x.strip()
present(text) == text # None /\ strip(text) # <<>>

\* str.lower() and s[k:] on runs
lower_text(t) == concat(<<>>, [i \in 1..Len(t) |-> <<LowerChar(t[i][1]), t[i][2]>>])

RECURSIVE text_drop(_, _)
text_drop(t, k) ==
    IF Len(t) = 0 \/ k <= 0 THEN t
    ELSE IF t[1][2] > k THEN << <<t[1][1], t[1][2] - k>> >> \o Tail(t)
    ELSE text_drop(Tail(t), k - t[1][2])

\* the byline meta of _extract_author: a leading "By " is removed
strip_by(author_text) ==
    IF lower_text(text_prefix(author_text, 3)) = text_of(<<"b","y"," ">>)
    THEN text_drop(author_text, 3) ELSE author_text

\* the JSON-LD scripts of _extract_author: the first script whose "author"
\* yields a name decides.  author_data is [kind, names]: a string, an object
\* with a name, or an array of names
RECURSIVE json_ld_author(_)
json_ld_author(ld_scripts) ==
    IF Len(ld_scripts) = 0 THEN <<None, "missing">>
    ELSE IF ld_scripts[1].kind = "str" THEN <<ld_scripts[1].names[1], "meta">>
    ELSE IF ld_scripts[1].kind = "dict" /\ Len(ld_scripts[1].names) > 0
         THEN <<ld_scripts[1].names[1], "meta">>
    ELSE IF ld_scripts[1].kind = "list" /\ Len(ld_scripts[1].names) > 0
         THEN <<join_commas(ld_scripts[1].names), "meta">>
    ELSE json_ld_author(Tail(ld_scripts))

\* NewsSpider._extract_author: <<author, author_source>>
_extract_author(article, page) ==
    IF present(page.feed_author) THEN <<strip(page.feed_author), "feed">>
    ELSE IF valid_authors(article.authors) # <<>>
         THEN <<join_commas(valid_authors(article.authors)), "newspaper3k">>
    ELSE IF present(page.meta_author) THEN <<strip(page.meta_author), "meta">>
    ELSE IF present(page.og_author) THEN <<strip(page.og_author), "meta">>
    ELSE IF present(page.byl_author) THEN <<strip_by(strip(page.byl_author)), "meta">>
    ELSE json_ld_author(page.ld_scripts)

\* item[k] = v for every k of fields
set_fields(item, fields) == fields @@ item

\* normalized_text: None if the normalized text has fewer than 200 characters
quality_text(normalized_text) ==
    IF normalized_text # None /\ text_len(normalized_text) < 200 THEN None
    ELSE normalized_text

\* process_article, lines 380-389: the fields every record starts with
new_item(url, source, now) ==
    [url |-> url, source |-> source, scraped_at |-> strftime(now),
     parse_ok |-> FALSE, parse_error |-> None,
     extraction_method |-> "newspaper3k", content_length_chars |-> 0]

\* process_article, lines 405-417: article.download / article.parse raised
parse_failed(item, url, source, error) ==
    set_fields(item,
        [parse_error |-> concat(text_of(<<"P","a","r","s","e"," ","f","a","i","l","e","d",":"," ">>), text_prefix(error, 200)),
         title |-> None, author |-> None, author_source |-> "missing",
         text |-> None, summary |-> None,
         summary_max_chars |-> SUMMARY_MAX_CHARS, summary_truncated |-> FALSE,
         published_at |-> None,
         url_hash |-> _compute_url_hash(url),
         fingerprint |-> _compute_fingerprint(None, None, source, None)])

\* process_article, lines 420-437: the content validation failed
validation_failed(item, url, source, title, published_at) ==
    set_fields(item,
        [parse_error |-> text_of(<<"C","o","n","t","e","n","t"," ","v","a","l","i","d","a","t","i","o","n"," ","f","a","i","l","e","d"," ","(","t","o","o"," ","s","h","o","r","t"," ","o","r"," ","i","n","v","a","l","i","d",")">>),
         title |-> title, author |-> None, author_source |-> "missing",
         text |-> None, summary |-> None,
         summary_max_chars |-> SUMMARY_MAX_CHARS, summary_truncated |-> FALSE,
         published_at |-> published_at,
         url_hash |-> _compute_url_hash(url),
         fingerprint |-> _compute_fingerprint(title, published_at, source, None)])

\* the success path without its last assignment, item["parse_ok"] = True
parsed_ok_unmarked(item, url, source, normalized_text, author, title, published_at, summary) ==
    set_fields(item,
        [text |-> normalized_text,
         content_length_chars |-> IF normalized_text # None
                                  THEN text_len(normalized_text) ELSE 0,
         author |-> author[1], author_source |-> author[2],
         title |-> title,
         published_at |-> published_at,
         summary |-> summary[1],
         summary_max_chars |-> SUMMARY_MAX_CHARS, summary_truncated |-> summary[2],
         url_hash |-> _compute_url_hash(url),
         fingerprint |-> _compute_fingerprint(title, published_at, source, normalized_text)])

\* process_article, lines 446-487: the success path
parsed_ok(item, url, source, normalized_text, author, title, published_at, summary) ==
    set_fields(item,
        [text |-> normalized_text,
         content_length_chars |-> IF normalized_text # None
                                  THEN text_len(normalized_text) ELSE 0,
         author |-> author[1], author_source |-> author[2],
         title |-> title,
         published_at |-> published_at,
         summary |-> summary[1],
         summary_max_chars |-> SUMMARY_MAX_CHARS, summary_truncated |-> summary[2],
         url_hash |-> _compute_url_hash(url),
         fingerprint |-> _compute_fingerprint(title, published_at, source, normalized_text),
         parse_ok |-> TRUE])

\* what process_article does: it returns a record or an exception leaves it
Returned(item) == [raised |-> FALSE, item |-> item]

Raised == [raised |-> TRUE, item |-> [url |-> <<>>]]

\* process_article after article.parse() succeeded; date is
\* parse_iso8601_date(article.publish_date)
process_parsed(item, url, source, article, page, date) ==
    IF ~_validate_article_content(article)
    THEN IF date.raised THEN Raised
         ELSE Returned(validation_failed(item, url, source,
                                         normalize_whitespace(article.title), date.value))
    ELSE IF date.raised THEN Raised
         ELSE Returned(parsed_ok(item, url, source,
                                 quality_text(normalize_whitespace(article.text)),
                                 _extract_author(article, page),
                                 normalize_whitespace(article.title),
                                 date.value,
                                 _get_summary_with_metadata(article)))

\* NewsSpider.process_article(response, source, config); article is what
\* newspaper3k makes of response.text, page the author markup of the response
process_article(url, source, article, page, now) ==
    IF article.raises
    THEN Returned(parse_failed(new_item(url, source, now), url, source, article.error))
    ELSE process_parsed(new_item(url, source, now), url, source, article, page,
                        parse_iso8601_date(article.publish_date))

(***************************************************************************)
(* NewsSpider.parse (newsspider.py).  The links of a page are kept as runs *)
(* <<href, n>>: n consecutive <a> elements with the same href.             *)
(***************************************************************************)
\* the filters of the loop without the same-domain check
accepts_anywhere(abs_url, allowed_domains) ==
    /\ is_valid_url(abs_url)
    /\ is_article_url(abs_url)

\* the three filters of the loop of parse
accepts(abs_url, allowed_domains) ==
    /\ is_valid_url(abs_url)
    /\ is_same_domain(abs_url, allowed_domains)
    /\ is_article_url(abs_url)

\* the loop with the cap tested by > instead of >=
followed_in_run_late_break(accepted, n, followed_count) ==
    IF ~accepted \/ followed_count > MAX_FOLLOW_PER_PAGE THEN 0
    ELSE IF n <= MAX_FOLLOW_PER_PAGE + 1 - followed_count THEN n
    ELSE MAX_FOLLOW_PER_PAGE + 1 - followed_count

\* the iterations of the loop over n consecutive links with the same href:
\* a rejected link is skipped (continue); an accepted one is followed and
\* counted, until followed_count >= MAX_FOLLOW_PER_PAGE ends the loop (break)
followed_in_run(accepted, n, followed_count) ==
    IF ~accepted \/ followed_count >= MAX_FOLLOW_PER_PAGE THEN 0
    ELSE IF n <= MAX_FOLLOW_PER_PAGE - followed_count THEN n
    ELSE MAX_FOLLOW_PER_PAGE - followed_count

RECURSIVE follow_loop(_, _, _, _, _)
follow_counted(rest, base, allowed_domains, followed_count, yielded, abs_url, k) ==
    follow_loop(rest, base, allowed_domains, followed_count + k,
                IF k > 0 THEN Append(yielded, <<abs_url, k>>) ELSE yielded)

follow_run(links, base, allowed_domains, followed_count, yielded, abs_url) ==
    IF abs_url = ValueError THEN [requests |-> yielded, raised |-> TRUE]
    ELSE follow_counted(Tail(links), base, allowed_domains, followed_count, yielded, abs_url,
                        followed_in_run(accepts(abs_url, allowed_domains),
                                        links[1][2], followed_count))

\* for href in hrefs: ... yield response.follow(abs_url, callback=self.parse)
follow_loop(links, base, allowed_domains, followed_count, yielded) ==
    IF Len(links) = 0 \/ followed_count >= MAX_FOLLOW_PER_PAGE
    THEN [requests |-> yielded, raised |-> FALSE]
    ELSE follow_run(links, base, allowed_domains, followed_count, yielded,
                    urljoin(base, links[1][1]))

\* the number of requests in a sequence of runs <<url, n>>
RECURSIVE count_requests(_)
count_requests(reqs) ==
    IF Len(reqs) = 0 THEN 0 ELSE reqs[1][2] + count_requests(Tail(reqs))

\* parse, lines 217-221: the record of process_article is yielded and parse
\* returns; an exception out of process_article leaves parse with nothing
\* yielded
parse_article(outcome) ==
    [kind |-> "article",
     items |-> IF outcome.raised THEN <<>> ELSE <<outcome.item>>,
     requests |-> <<>>,
     raised |-> outcome.raised]

\* parse, lines 224-247: the links that pass the filters are followed
parse_discovery(outcome) ==
    [kind |-> "discovery", items |-> <<>>,
     requests |-> outcome.requests, raised |-> outcome.raised]

\* NewsSpider.parse(response) with the `return` after the article removed
parse_without_return(self, response, article, page, links, now) ==
    IF is_article_page(response)
    THEN [parse_article(process_article(response.url, self.domain, article, page, now))
            EXCEPT !.requests =
                follow_loop(links, response.url, self.allowed_domains, 0, <<>>).requests]
    ELSE parse_discovery(follow_loop(links, response.url, self.allowed_domains, 0, <<>>))

\* NewsSpider.parse(response): what it yields.  article and page are what
\* newspaper3k and the author lookups find in the response, links its hrefs
parse(self, response, article, page, links, now) ==
    IF is_article_page(response)
    THEN parse_article(process_article(response.url, self.domain, article, page, now))
    ELSE parse_discovery(follow_loop(links, response.url, self.allowed_domains, 0, <<>>))


(***************************************************************************)
(* The site spiders (spiders/*.py): their overrides of is_article_url and  *)
(* is_article_page.  A pattern with re.I is matched against the lowercased *)
(* URL.                                                                    *)
(***************************************************************************)
ALNUM == Range(LOWERCASE) \cup DIGITS

\* s[i..] starts with sub
follows(s, sub, i) == i + Len(sub) - 1 <= Len(s) /\ SubSeq(s, i, i + Len(sub) - 1) = sub

\* s[i..i+n-1] are n characters of the class
all_in(s, i, n, class) == i + n - 1 <= Len(s) /\ \A k \in i..(i + n - 1) : s[k] \in class

\* re.search(sub + "[class]{n,}", s)
has_run_after(s, sub, class, n) ==
    \E i \in 1..Len(s) : follows(s, sub, i) /\ all_in(s, i + Len(sub), n, class)

\* re.search("/(a|b|...)/", s)
has_segment(s, names) == \E name \in names : Contains(s, <<"/">> \o name \o <<"/">>)

\* the match of "https?://[^/]+/" at the start of the lowercased URL, and
\* what follows it
no_host == [ok |-> FALSE, tail |-> <<>>]

host_match(rest) ==
    IF Len(rest) > 0 /\ "/" \in Range(rest) /\ rest[1] # "/"
    THEN [ok |-> TRUE, tail |-> after_first(rest, "/")]
    ELSE no_host

after_host(lowered) ==
    IF StartsWith(lowered, <<"h","t","t","p","s",":","/","/">>) THEN host_match(From(lowered, 9))
    ELSE IF StartsWith(lowered, <<"h","t","t","p",":","/","/">>) THEN host_match(From(lowered, 8))
    ELSE no_host

\* the tail is one of the names, with or without a final "/"
tail_is_root(m, names) == m.ok /\ \E name \in names : m.tail \in { name, name \o <<"/">> }

\* re.match of "https?://[^/]+/(a|b|...)/?" up to the end of the URL, with re.I
is_section_root(url, names) == tail_is_root(after_host(Lower(url)), names)

\* the tail starts with the prefix
tail_starts(m, prefix) == m.ok /\ StartsWith(m.tail, prefix)

\* re.match(r"https?://[^/]+/prefix", url, re.I)
is_under(url, prefix) == tail_starts(after_host(Lower(url)), prefix)

\* re.search(r"/\d{4}/\d{2}/\d{2}/", url)
has_date_in(url) == has_date(url)

\* AlJazeeraSpider, ReutersSpider, WashingtonPostSpider and WSJSpider do not
\* override is_article_url
AlJazeeraSpider_is_article_page(response) ==
    IF response.og_type = "article" THEN TRUE
    ELSE response.has_article_tag \/ Contains(response.url, <<"/","n","e","w","s","/">>)

ReutersSpider_is_article_page(response) ==
    IF response.og_type = "article" THEN TRUE
    ELSE Contains(response.url, <<"/","a","r","t","i","c","l","e","/">>)

WashingtonPostSpider_is_article_page(response) ==
    IF response.og_type = "article" THEN TRUE
    ELSE response.has_article_tag \/ Contains(response.url, <<"/","2","0","2">>)

WSJSpider_is_article_page(response) ==
    IF response.og_type = "article" THEN TRUE
    ELSE Contains(response.url, <<"/","a","r","t","i","c","l","e","s","/">>) \/ response.has_article_tag

\* APNewsSpider
APNewsSpider_rejects(url) ==
    \/ is_under(url, <<"h","u","b","/">>)
    \/ is_section_root(url, { <<"p","o","l","i","t","i","c","s">>, <<"w","o","r","l","d","-","n","e","w","s">>, <<"b","u","s","i","n","e","s","s">>,
                              <<"t","e","c","h","n","o","l","o","g","y">>, <<"u","s","-","n","e","w","s">> })

APNewsSpider_accepts(url) == Contains(url, <<"/","a","r","t","i","c","l","e","/">>)

APNewsSpider_is_article_url(url) ==
    IF APNewsSpider_rejects(url) THEN FALSE
    ELSE IF APNewsSpider_accepts(url) THEN TRUE
    ELSE FALSE

APNewsSpider_is_article_page(response) ==
    IF response.og_type = "article" THEN TRUE
    ELSE IF Contains(response.url, <<"/","a","r","t","i","c","l","e","/">>) THEN TRUE
    ELSE is_article_page_of(response, APNewsSpider_is_article_url(response.url))

\* BBCSpider
BBCSpider_rejects(url) ==
    has_segment(Lower(url), { <<"a","v">>, <<"l","i","v","e">>, <<"p","r","o","g","r","a","m","m","e","s">>, <<"n","e","w","s","r","o","u","n","d">> })

\* re.search(r"/news/[a-z]+-\d{6,}", s)
has_news_id(s) ==
    \E i \in 1..Len(s) :
        /\ follows(s, <<"/","n","e","w","s","/">>, i)
        /\ \E j \in (i + 7)..Len(s) :
              /\ all_in(s, i + 6, j - i - 6, Range(LOWERCASE))
              /\ s[j] = "-"
              /\ all_in(s, j + 1, 6, DIGITS)

BBCSpider_accepts(url) ==
    \/ has_news_id(Lower(url))
    \/ has_run_after(Lower(url), <<"/","a","r","t","i","c","l","e","s","/">>, ALNUM, 1)
    \/ has_run_after(Lower(url), <<"/","s","p","o","r","t","/","a","r","t","i","c","l","e","s","/">>, ALNUM, 1)

BBCSpider_is_article_url(url) ==
    IF BBCSpider_rejects(url) THEN FALSE
    ELSE IF BBCSpider_accepts(url) THEN TRUE
    ELSE FALSE

\* the is_article_page that BBCSpider, CBSNewsSpider, GuardianSpider and
\* NBCNewsSpider each define: og:type, the <article> tag, then the base
\* check with the spider's own is_article_url
tagged_or_base(response, article_url) ==
    IF response.og_type = "article" THEN TRUE
    ELSE IF response.has_article_tag THEN TRUE
    ELSE is_article_page_of(response, article_url)

BBCSpider_is_article_page(response) ==
    tagged_or_base(response, BBCSpider_is_article_url(response.url))

\* CBSNewsSpider
CBSNewsSpider_rejects(url) ==
    \/ is_section_root(url, { <<"u","s">>, <<"w","o","r","l","d">>, <<"p","o","l","i","t","i","c","s">>, <<"m","o","n","e","y","w","a","t","c","h">>,
                              <<"e","n","t","e","r","t","a","i","n","m","e","n","t">>, <<"b","u","s","i","n","e","s","s">> })
    \/ has_segment(Lower(url), { <<"v","i","d","e","o">>, <<"l","i","v","e">>, <<"e","s","s","e","n","t","i","a","l","s">> })

CBSNewsSpider_accepts(url) ==
    has_run_after(Lower(url), <<"/","n","e","w","s","/">>, ALNUM \cup {"-"}, 20)

CBSNewsSpider_is_article_url(url) ==
    IF CBSNewsSpider_rejects(url) THEN FALSE
    ELSE IF CBSNewsSpider_accepts(url) THEN TRUE
    ELSE FALSE

CBSNewsSpider_is_article_page(response) ==
    tagged_or_base(response, CBSNewsSpider_is_article_url(response.url))

\* CNNSpider
CNNSpider_rejects(url) ==
    has_segment(Lower(url), { <<"v","i","d","e","o">>, <<"g","a","l","l","e","r","y">>, <<"l","i","v","e","-","n","e","w","s">>, <<"c","n","n","-","u","n","d","e","r","s","c","o","r","e","d">> })

CNNSpider_accepts(url) == has_date_in(url)

CNNSpider_is_article_url(url) ==
    IF CNNSpider_rejects(url) THEN FALSE
    ELSE IF CNNSpider_accepts(url) THEN TRUE
    ELSE FALSE

CNNSpider_is_article_page(response) ==
    IF Contains(response.data_page_type, <<"a","r","t","i","c","l","e">>) THEN TRUE
    ELSE is_article_page_of(response, CNNSpider_is_article_url(response.url))

\* FoxNewsSpider
FoxNewsSpider_rejects(url) ==
    \/ is_section_root(url, { <<"p","o","l","i","t","i","c","s">>, <<"u","s">>, <<"w","o","r","l","d">>, <<"m","e","d","i","a">>, <<"o","p","i","n","i","o","n">> })
    \/ has_segment(Lower(url), { <<"v","i","d","e","o">>, <<"c","a","t","e","g","o","r","y">>, <<"s","h","o","w","s">>, <<"p","e","r","s","o","n">> })

FoxNewsSpider_accepts(url) ==
    \E section \in { <<"p","o","l","i","t","i","c","s">>, <<"u","s">>, <<"w","o","r","l","d">>, <<"m","e","d","i","a">>, <<"o","p","i","n","i","o","n">>,
                     <<"e","n","t","e","r","t","a","i","n","m","e","n","t">>, <<"t","e","c","h">> } :
        has_run_after(Lower(url), <<"/">> \o section \o <<"/">>, ALNUM \cup {"-"}, 20)

FoxNewsSpider_is_article_url(url) ==
    IF FoxNewsSpider_rejects(url) THEN FALSE
    ELSE IF FoxNewsSpider_accepts(url) THEN TRUE
    ELSE FALSE

FoxNewsSpider_is_article_page(response) ==
    IF Contains(response.body_class, <<"f","n"," ","a","r","t","i","c","l","e","-","s","i","n","g","l","e">>) THEN TRUE
    ELSE is_article_page_of(response, FoxNewsSpider_is_article_url(response.url))

\* GuardianSpider
GuardianSpider_rejects(url) ==
    \/ is_section_root(url, { <<"w","o","r","l","d">>, <<"u","k">>, <<"u","s">>, <<"t","e","c","h","n","o","l","o","g","y">>, <<"b","u","s","i","n","e","s","s">>,
                              <<"p","o","l","i","t","i","c","s">> })
    \/ has_segment(Lower(url), { <<"v","i","d","e","o">>, <<"g","a","l","l","e","r","y">>, <<"l","i","v","e">> })

\* re.search(r"/\d{4}/[a-z]{3}/\d{2}/", s)
has_month_date(s) ==
    \E i \in 1..Len(s) :
        /\ i + 12 <= Len(s)
        /\ s[i] = "/" /\ all_in(s, i + 1, 4, DIGITS)
        /\ s[i + 5] = "/" /\ all_in(s, i + 6, 3, Range(LOWERCASE))
        /\ s[i + 9] = "/" /\ all_in(s, i + 10, 2, DIGITS)
        /\ s[i + 12] = "/"

GuardianSpider_accepts(url) == has_month_date(Lower(url))

GuardianSpider_is_article_url(url) ==
    IF GuardianSpider_rejects(url) THEN FALSE
    ELSE IF GuardianSpider_accepts(url) THEN TRUE
    ELSE FALSE

GuardianSpider_is_article_page(response) ==
    tagged_or_base(response, GuardianSpider_is_article_url(response.url))

\* NBCNewsSpider
NBCNewsSpider_rejects(url) ==
    \/ is_section_root(url, { <<"p","o","l","i","t","i","c","s">>, <<"w","o","r","l","d">>, <<"b","u","s","i","n","e","s","s">>, <<"t","e","c","h","-","m","e","d","i","a">>,
                              <<"h","e","a","l","t","h">>, <<"u","s","-","n","e","w","s">> })
    \/ has_segment(Lower(url), { <<"v","i","d","e","o">>, <<"s","h","o","w","s">>, <<"n","o","w">> })

\* re.search of prefix, then n or more digits up to the end of s
ends_with_digits_after(s, prefix, n) ==
    /\ trailing_digits(s) >= n
    /\ EndsWith(SubSeq(s, 1, Len(s) - trailing_digits(s)), prefix)

NBCNewsSpider_accepts(url) ==
    \/ ends_with_digits_after(Lower(url), <<"-","r","c","n","a">>, 4)
    \/ ends_with_digits_after(Lower(url), <<"-","n">>, 6)

NBCNewsSpider_is_article_url(url) ==
    IF NBCNewsSpider_rejects(url) THEN FALSE
    ELSE IF NBCNewsSpider_accepts(url) THEN TRUE
    ELSE FALSE

NBCNewsSpider_is_article_page(response) ==
    tagged_or_base(response, NBCNewsSpider_is_article_url(response.url))

\* NYTimesSpider
NYTimesSpider_rejects(url) ==
    \/ is_under(url, <<"s","e","c","t","i","o","n","/">>)
    \/ has_segment(Lower(url), { <<"v","i","d","e","o">>, <<"i","n","t","e","r","a","c","t","i","v","e">>, <<"s","l","i","d","e","s","h","o","w">> })

NYTimesSpider_accepts(url) == has_date_in(url)

NYTimesSpider_is_article_url(url) ==
    IF NYTimesSpider_rejects(url) THEN FALSE
    ELSE IF NYTimesSpider_accepts(url) THEN TRUE
    ELSE FALSE

NYTimesSpider_is_article_page(response) ==
    IF response.og_type = "article" THEN TRUE
    ELSE IF has_date_in(response.url) THEN TRUE
    ELSE is_article_page_of(response, NYTimesSpider_is_article_url(response.url))

\* the spiders that override is_article_url
Overriding == { "apnews", "bbc", "cbsnews", "cnn", "foxnews", "guardian",
                "nbcnews", "nytimes" }

\* spider.is_article_url(url) of the spider called `name`
spider_is_article_url(name, url) ==
    CASE name = "apnews" -> APNewsSpider_is_article_url(url)
      [] name = "bbc" -> BBCSpider_is_article_url(url)
      [] name = "cbsnews" -> CBSNewsSpider_is_article_url(url)
      [] name = "cnn" -> CNNSpider_is_article_url(url)
      [] name = "foxnews" -> FoxNewsSpider_is_article_url(url)
      [] name = "guardian" -> GuardianSpider_is_article_url(url)
      [] name = "nbcnews" -> NBCNewsSpider_is_article_url(url)
      [] name = "nytimes" -> NYTimesSpider_is_article_url(url)
      [] OTHER -> is_article_url(url)

\* the site's reject patterns match the URL
spider_rejects(name, url) ==
    CASE name = "apnews" -> APNewsSpider_rejects(url)
      [] name = "bbc" -> BBCSpider_rejects(url)
      [] name = "cbsnews" -> CBSNewsSpider_rejects(url)
      [] name = "cnn" -> CNNSpider_rejects(url)
      [] name = "foxnews" -> FoxNewsSpider_rejects(url)
      [] name = "guardian" -> GuardianSpider_rejects(url)
      [] name = "nbcnews" -> NBCNewsSpider_rejects(url)
      [] name = "nytimes" -> NYTimesSpider_rejects(url)
      [] OTHER -> FALSE

\* the site's accept patterns match the URL
spider_accepts(name, url) ==
    CASE name = "apnews" -> APNewsSpider_accepts(url)
      [] name = "bbc" -> BBCSpider_accepts(url)
      [] name = "cbsnews" -> CBSNewsSpider_accepts(url)
      [] name = "cnn" -> CNNSpider_accepts(url)
      [] name = "foxnews" -> FoxNewsSpider_accepts(url)
      [] name = "guardian" -> GuardianSpider_accepts(url)
      [] name = "nbcnews" -> NBCNewsSpider_accepts(url)
      [] name = "nytimes" -> NYTimesSpider_accepts(url)
      [] OTHER -> FALSE

\* spider.is_article_page(response) of the spider called `name`
spider_is_article_page(name, response) ==
    CASE name = "aljazeera" -> AlJazeeraSpider_is_article_page(response)
      [] name = "apnews" -> APNewsSpider_is_article_page(response)
      [] name = "bbc" -> BBCSpider_is_article_page(response)
      [] name = "cbsnews" -> CBSNewsSpider_is_article_page(response)
      [] name = "cnn" -> CNNSpider_is_article_page(response)
      [] name = "foxnews" -> FoxNewsSpider_is_article_page(response)
      [] name = "guardian" -> GuardianSpider_is_article_page(response)
      [] name = "nbcnews" -> NBCNewsSpider_is_article_page(response)
      [] name = "nytimes" -> NYTimesSpider_is_article_page(response)
      [] name = "reuters" -> ReutersSpider_is_article_page(response)
      [] name = "washingtonpost" -> WashingtonPostSpider_is_article_page(response)
      [] name = "wsj" -> WSJSpider_is_article_page(response)
      [] OTHER -> is_article_page(response)

(***************************************************************************)
(* The site extractors (news_scraper/extractors).  A Python value that     *)
(* json.loads or a selector can give is a record: its type, str(value) as  *)
(* `text`, the elements of a list (or the "name" member of a dict, if it   *)
(* has one) as `elems`, and in `size` what decides its truth value: the    *)
(* length of a str, list or dict, the number itself for an int.            *)
(***************************************************************************)
py_none == [type |-> "NoneType", text |-> <<>>, elems |-> <<>>, size |-> 0]

py_str(t) == [type |-> "str", text |-> t, elems |-> <<>>, size |-> text_len(t)]

py_int(n) == [type |-> "int", text |-> text_of(decimal(n)), elems |-> <<>>, size |-> n]

\* a dict of `size` members; name is <<>> or <<the value of its "name">>
py_dict(name, size, text) == [type |-> "dict", text |-> text, elems |-> name, size |-> size]

py_list(elems, text) == [type |-> "list", text |-> text, elems |-> elems, size |-> Len(elems)]

\* bool(value)
truthy(value) == value.size > 0

\* a.get("name")
get_name(a) == IF Len(a.elems) = 0 THEN py_none ELSE a.elems[1]

\* sep.join(pieces)
RECURSIVE join_text(_, _)
join_text(pieces, sep) ==
    IF Len(pieces) = 0 THEN <<>>
    ELSE IF Len(pieces) = 1 THEN pieces[1]
    ELSE concat(concat(pieces[1], sep), join_text(Tail(pieces), sep))

\* [str(item) for item in values]
texts_of(values) == [i \in 1..Len(values) |-> values[i].text]

\* the characters of a short text
RECURSIVE chars(_)
chars(t) ==
    IF Len(t) = 0 THEN <<>>
    ELSE [i \in 1..t[1][2] |-> t[1][1]] \o chars(Tail(t))

\* ExtractedArticle.__post_init__: the confidence (in hundredths) is checked
post_init_unchecked(self) == TRUE

__post_init__(self) == 0 <= self.confidence /\ self.confidence <= 100

\* what a call gives: a value, or an exception that leaves it
returns(value) == [raised |-> FALSE, exception |-> "", value |-> <<value>>]

raises(exception) == [raised |-> TRUE, exception |-> exception, value |-> <<>>]

\* ExtractedArticle(...): the dataclass constructor followed by __post_init__
ExtractedArticle(fields) ==
    IF __post_init__(fields) THEN returns(fields) ELSE raises("ValueError")

\* [e.item for e in entries]
items_of(entries) == [i \in 1..Len(entries) |-> entries[i].item]

\* extract_json_ld: the dicts of every script that json.loads accepts.  A
\* script is [kind, elems]: "invalid" (json.loads raises), "dict", "list"
\* (elems are [is_dict, item]) or "other" (a scalar)
RECURSIVE extract_json_ld(_)
extract_json_ld(scripts) ==
    IF Len(scripts) = 0 THEN <<>>
    ELSE (IF scripts[1].kind \in {"dict", "list"}
          THEN items_of(SelectSeq(scripts[1].elems, LAMBDA e : e.is_dict))
          ELSE <<>>)
         \o extract_json_ld(Tail(scripts))

\* [para.strip() for para in paragraphs]
stripped_texts_of(paragraphs) == [i \in 1..Len(paragraphs) |-> strip(paragraphs[i])]

\* normalize_paragraphs
RECURSIVE stripped_paragraphs(_)
stripped_paragraphs(paragraphs) ==
    IF Len(paragraphs) = 0 THEN <<>>
    ELSE (IF strip(paragraphs[1]) # <<>> THEN <<strip(paragraphs[1])>> ELSE <<>>)
         \o stripped_paragraphs(Tail(paragraphs))

normalize_paragraphs(paragraphs) ==
    py_str(join_text(stripped_paragraphs(paragraphs), << <<"\n", 2>> >>))

\* cleaned if cleaned else None
str_or_none(cleaned) == IF cleaned = <<>> THEN py_none ELSE py_str(cleaned)

\* clean_text
clean_text(text) ==
    IF ~truthy(text) THEN py_none
    ELSE IF text.type = "list"
    THEN str_or_none(strip(collapse_whitespace(<<>>,
             join_commas(texts_of(SelectSeq(text.elems, truthy))))))
    ELSE str_or_none(strip(collapse_whitespace(<<>>, text.text)))

(***************************************************************************)
(* datetime.strptime and datetime.fromisoformat on the characters of a     *)
(* date string.  A format is a sequence of directives and literal          *)
(* characters; "?" stands for any one character.                           *)
(***************************************************************************)
is_digit(s, i) == i <= Len(s) /\ s[i] \in DIGITS

digit(s, i) == CHOOSE n \in 0..9 : DIGIT_CHARS[n + 1] = s[i]

RECURSIVE number(_, _, _)
number(s, i, k) ==
    IF k = 0 THEN 0 ELSE number(s, i, k - 1) * 10 + digit(s, i + k - 1)

all_digits(s, i, k) == \A j \in i..(i + k - 1) : is_digit(s, j)

\* the least and greatest value the regular expression of a directive admits
directive_min == [d \in {"%m", "%d", "%H", "%M", "%S"} |-> IF d \in {"%m", "%d"} THEN 1 ELSE 0]

directive_max == [d \in {"%m", "%d", "%H", "%M", "%S"} |->
                    IF d = "%m" THEN 12 ELSE IF d = "%d" THEN 31
                    ELSE IF d = "%H" THEN 23 ELSE IF d = "%M" THEN 59 ELSE 61]

two_digits_match(d, s, i) ==
    /\ all_digits(s, i, 2)
    /\ number(s, i, 2) >= directive_min[d]
    /\ number(s, i, 2) <= directive_max[d]

one_digit_match(d, s, i) == is_digit(s, i) /\ digit(s, i) >= directive_min[d]

\* the number of digits %f takes: as many as there are, at most six
fraction_len(s, i) == Cardinality({k \in 1..6 : all_digits(s, i, k)})

\* the fraction of k digits as microseconds
RECURSIVE microseconds(_, _)
microseconds(n, k) == IF k >= 6 THEN n ELSE microseconds(n * 10, k + 1)

\* %z: Z, or a sign, two digits, an optional colon and two digits; the
\* number of characters it takes, 0 if it does not match.  (An offset with
\* seconds, which strptime also takes, is outside this model.)
z_len(s, i) ==
    IF i <= Len(s) /\ s[i] = "Z" THEN 1
    ELSE IF i <= Len(s) /\ s[i] \in {"+", "-"} /\ all_digits(s, i + 1, 2)
    THEN (IF i + 3 <= Len(s) /\ s[i + 3] = ":" /\ all_digits(s, i + 4, 2)
               /\ number(s, i + 4, 2) <= 59
          THEN 6
          ELSE IF all_digits(s, i + 3, 2) /\ number(s, i + 3, 2) <= 59 THEN 5
          ELSE 0)
    ELSE 0

\* the offset in minutes of the %z at i
z_minutes(s, i) ==
    IF s[i] = "Z" THEN 0
    ELSE (IF s[i] = "-" THEN 0 - 1 ELSE 1)
         * (number(s, i + 1, 2) * 60
            + number(s, IF z_len(s, i) = 6 THEN i + 4 ELSE i + 3, 2))

\* the fields a format has not set: 1900-01-01 00:00:00, no tzinfo
strptime_defaults ==
    [k \in {"%Y", "%m", "%d", "%H", "%M", "%S", "%f", "%z", "aware"} |->
        IF k = "%Y" THEN 1900 ELSE IF k \in {"%m", "%d"} THEN 1 ELSE 0]

no_match == [ok |-> FALSE, got |-> strptime_defaults]

\* the first alternative of a regular expression that leads to a match
first_match(m, others) == IF m.ok THEN m ELSE others

\* the month names %B and %b match, in the C locale
MONTH_NAMES ==
    [full |-> << <<"j","a","n","u","a","r","y">>, <<"f","e","b","r","u","a","r","y">>, <<"m","a","r","c","h">>, <<"a","p","r","i","l">>, <<"m","a","y">>, <<"j","u","n","e">>,
                 <<"j","u","l","y">>, <<"a","u","g","u","s","t">>, <<"s","e","p","t","e","m","b","e","r">>, <<"o","c","t","o","b","e","r">>, <<"n","o","v","e","m","b","e","r">>,
                 <<"d","e","c","e","m","b","e","r">> >>,
     abbreviated |-> << <<"j","a","n">>, <<"f","e","b">>, <<"m","a","r">>, <<"a","p","r">>, <<"m","a","y">>, <<"j","u","n">>, <<"j","u","l">>,
                        <<"a","u","g">>, <<"s","e","p">>, <<"o","c","t">>, <<"n","o","v">>, <<"d","e","c">> >>]

\* s[i..] starts with the name, whatever the letter case
name_at(s, i, name) ==
    /\ i + Len(name) - 1 <= Len(s)
    /\ Lower(SubSeq(s, i, i + Len(name) - 1)) = name

\* the number of the month whose name is at s[i..], 0 if there is none (no
\* name is the start of another one of the same list)
month_at(names, s, i) ==
    IF \E m \in 1..12 : name_at(s, i, names[m])
    THEN CHOOSE m \in 1..12 : name_at(s, i, names[m])
    ELSE 0

month_names(directive) ==
    IF directive = "%B" THEN MONTH_NAMES.full ELSE MONTH_NAMES.abbreviated

\* the match of a format against s from position i on.  strptime matches
\* without regard to case and takes one digit where two are not there;
\* fromisoformat (strict) does neither
RECURSIVE format_match(_, _, _, _, _)
format_match(fmt, s, i, got, strict) ==
    IF Len(fmt) = 0 THEN [ok |-> i = Len(s) + 1, got |-> got]
    ELSE IF fmt[1] = "%Y"
    THEN (IF all_digits(s, i, 4)
          THEN format_match(Tail(fmt), s, i + 4,
                            [got EXCEPT !["%Y"] = number(s, i, 4)], strict)
          ELSE no_match)
    ELSE IF fmt[1] \in DOMAIN directive_max
    THEN first_match(
            IF two_digits_match(fmt[1], s, i)
            THEN format_match(Tail(fmt), s, i + 2,
                              [got EXCEPT ![fmt[1]] = number(s, i, 2)], strict)
            ELSE no_match,
            IF ~strict /\ one_digit_match(fmt[1], s, i)
            THEN format_match(Tail(fmt), s, i + 1,
                              [got EXCEPT ![fmt[1]] = digit(s, i)], strict)
            ELSE no_match)
    ELSE IF fmt[1] \in {"%B", "%b"}
    THEN (IF month_at(month_names(fmt[1]), s, i) > 0
          THEN format_match(Tail(fmt), s,
                            i + Len(month_names(fmt[1])[month_at(month_names(fmt[1]), s, i)]),
                            [got EXCEPT !["%m"] = month_at(month_names(fmt[1]), s, i)],
                            strict)
          ELSE no_match)
    ELSE IF fmt[1] = "%f"
    THEN (IF fraction_len(s, i) > 0
          THEN format_match(Tail(fmt), s, i + fraction_len(s, i),
                            [got EXCEPT !["%f"] =
                                microseconds(number(s, i, fraction_len(s, i)),
                                             fraction_len(s, i))], strict)
          ELSE no_match)
    ELSE IF fmt[1] = "%z"
    THEN (IF z_len(s, i) > 0
          THEN format_match(Tail(fmt), s, i + z_len(s, i),
                            [got EXCEPT !["%z"] = z_minutes(s, i), !["aware"] = 1],
                            strict)
          ELSE no_match)
    ELSE IF i <= Len(s) /\ (\/ fmt[1] = "?"
                            \/ s[i] = fmt[1]
                            \/ ~strict /\ LowerChar(s[i]) = LowerChar(fmt[1]))
    THEN format_match(Tail(fmt), s, i + 1, got, strict)
    ELSE no_match

\* datetime(...) takes the matched fields: a day the month does not have, a
\* second above 59, year 0 or an offset of a day or more is a ValueError
valid_fields(got) ==
    /\ got["%Y"] >= 1
    /\ got["%d"] <= days_in_month(got["%Y"], got["%m"])
    /\ got["%S"] <= 59
    /\ got["%z"] > 0 - 1440 /\ got["%z"] < 1440

datetime_of(got) ==
    [year |-> got["%Y"], month |-> got["%m"], day |-> got["%d"],
     hour |-> got["%H"], minute |-> got["%M"], second |-> got["%S"],
     microsecond |-> got["%f"],
     aware |-> got["aware"] = 1, utcoffset |-> got["%z"]]

\* the datetime of a match: <<>> for a ValueError, else <<datetime>>
datetime_if_valid(m) ==
    IF m.ok /\ valid_fields(m.got) THEN <<datetime_of(m.got)>> ELSE <<>>

\* datetime.strptime(s, fmt)
parsed_as(fmt, s, strict) ==
    datetime_if_valid(format_match(fmt, s, 1, strptime_defaults, strict))

\* the formats of parse_datetime_from_meta, in its order
formats ==
    << <<"%Y","-","%m","-","%d","T","%H",":","%M",":","%S","%z">>,
       <<"%Y","-","%m","-","%d","T","%H",":","%M",":","%S","Z">>,
       <<"%Y","-","%m","-","%d","T","%H",":","%M",":","%S",".","%f","%z">>,
       <<"%Y","-","%m","-","%d","T","%H",":","%M",":","%S",".","%f","Z">>,
       <<"%Y","-","%m","-","%d","T","%H",":","%M",":","%S">>,
       <<"%Y","-","%m","-","%d">> >>

\* the forms datetime.fromisoformat takes that the model's dates reach: a
\* date, any separator, a time to the hour, minute, second or fraction, and
\* an offset of hours and minutes
iso_formats ==
    << <<"%Y","-","%m","-","%d">>,
       <<"%Y","-","%m","-","%d","?","%H">>,
       <<"%Y","-","%m","-","%d","?","%H",":","%M">>,
       <<"%Y","-","%m","-","%d","?","%H",":","%M",":","%S">>,
       <<"%Y","-","%m","-","%d","?","%H",":","%M",":","%S",".","%f">>,
       <<"%Y","-","%m","-","%d","?","%H","%z">>,
       <<"%Y","-","%m","-","%d","?","%H",":","%M","%z">>,
       <<"%Y","-","%m","-","%d","?","%H",":","%M",":","%S","%z">>,
       <<"%Y","-","%m","-","%d","?","%H",":","%M",":","%S",".","%f","%z">> >>

\* the first parse that is not a ValueError
first_of(parsed, others) == IF parsed # <<>> THEN parsed ELSE others

\* the first format of the list that parses s
RECURSIVE first_parse(_, _, _)
first_parse(fmts, s, strict) ==
    IF Len(fmts) = 0 THEN <<>>
    ELSE first_of(parsed_as(fmts[1], s, strict), first_parse(Tail(fmts), s, strict))

\* date_str.replace("Z", "+00:00")
RECURSIVE replace_z(_)
replace_z(s) ==
    IF Len(s) = 0 THEN <<>>
    ELSE (IF s[1] = "Z" THEN <<"+","0","0",":","0","0">> ELSE <<s[1]>>) \o replace_z(Tail(s))

\* datetime.fromisoformat: seconds of 60 and hours of 24 are ValueErrors
fromisoformat(s) == first_parse(iso_formats, s, TRUE)

\* parse_datetime_from_meta, lines 155-179, for the stripped string
parse_date_chars(s) ==
    first_of(first_parse(formats, s, FALSE), fromisoformat(replace_z(s)))

\* parse_datetime_from_meta: date_str.strip() is an AttributeError for a
\* value that is true and not a str
parse_datetime_from_meta(date_str) ==
    IF ~truthy(date_str) THEN returns(<<>>)
    ELSE IF date_str.type # "str" THEN raises("AttributeError")
    ELSE IF strip(date_str.text) = <<>> THEN returns(<<>>)
    ELSE returns(parse_date_chars(chars(strip(date_str.text))))

(***************************************************************************)
(* The response: the JSON-LD scripts, what the metadata selectors give     *)
(* (.get(): the first match or None) and the text nodes of the paragraphs, *)
(* each with the body selectors that match it.                             *)
(***************************************************************************)
\* response.css(selector).getall() of a paragraph selector
getall(response, selector) ==
    texts_of(SelectSeq(response.paragraphs, LAMBDA p : selector \in p.within))

\* a or b for two lists
or_else(a, b) == IF a # <<>> THEN a ELSE b

\* the local variables of extract() at its start; raised is the exception
\* that has left it, "" while there is none
locals(extraction_method) ==
    [title |-> py_none, author |-> py_none, published_at |-> <<>>,
     modified_at |-> <<>>, section |-> py_none, tags |-> <<>>, body |-> py_none,
     extraction_method |-> extraction_method, confidence |-> 0, errors |-> <<>>,
     json_ld_has_body |-> FALSE, raised |-> ""]

\* errors.append(error)
with_error(a, error) == [a EXCEPT !.errors = Append(@, error)]

\* item.get("@type") in ["NewsArticle", "Article"]
is_article_item(item) ==
    item["@type"] \in {py_str(text_of(<<"N","e","w","s","A","r","t","i","c","l","e">>)), py_str(text_of(<<"A","r","t","i","c","l","e">>))}

\* if not title: title = clean_text(item.get("headline"))
headline_step(a, item) ==
    IF a.raised # "" \/ truthy(a.title) THEN a
    ELSE [a EXCEPT !.title = clean_text(item["headline"])]

\* the names of a list of authors: the strs and the true "name" of the dicts
RECURSIVE names_of(_)
names_of(author_data) ==
    IF Len(author_data) = 0 THEN <<>>
    ELSE (IF author_data[1].type = "dict" /\ truthy(get_name(author_data[1]))
          THEN <<get_name(author_data[1])>>
          ELSE IF author_data[1].type = "str" THEN <<author_data[1]>>
          ELSE <<>>)
         \o names_of(Tail(author_data))

\* ", ".join(names) is a TypeError unless every name is a str
joinable(names) == \A i \in 1..Len(names) : names[i].type = "str"

\* if names: author = clean_text(", ".join(names))
author_of_names(a, names) ==
    IF names = <<>> THEN a
    ELSE IF ~joinable(names) THEN [a EXCEPT !.raised = "TypeError"]
    ELSE [a EXCEPT !.author = clean_text(py_str(join_commas(texts_of(names))))]

\* the author of an item from a dict, a str or a list (cbs, cnn, guardian,
\* nbc, nyt)
author_step(a, item) ==
    IF a.raised # "" \/ truthy(a.author) THEN a
    ELSE IF item["author"].type = "dict"
    THEN [a EXCEPT !.author = clean_text(get_name(item["author"]))]
    ELSE IF item["author"].type = "str"
    THEN [a EXCEPT !.author = clean_text(item["author"])]
    ELSE IF item["author"].type = "list" /\ truthy(item["author"])
    THEN author_of_names(a, names_of(item["author"].elems))
    ELSE a

\* the author of an item from a dict or a str only (foxnews)
author_step_plain(a, item) ==
    IF a.raised # "" \/ truthy(a.author) THEN a
    ELSE IF item["author"].type = "dict"
    THEN [a EXCEPT !.author = clean_text(get_name(item["author"]))]
    ELSE IF item["author"].type = "str"
    THEN [a EXCEPT !.author = clean_text(item["author"])]
    ELSE a

\* a[field] = parsed, unless parse_datetime_from_meta raised
with_date(a, field, parsed) ==
    IF parsed.raised THEN [a EXCEPT !.raised = parsed.exception]
    ELSE [a EXCEPT ![field] = parsed.value[1]]

\* if not published_at: ... parse_datetime_from_meta(item.get(key))
date_step(a, item, key, field) ==
    IF a.raised # "" \/ a[field] # <<>> \/ ~truthy(item[key]) THEN a
    ELSE with_date(a, field, parse_datetime_from_meta(item[key]))

\* if not section: section = clean_text(item.get("articleSection"))
section_step(a, item) ==
    IF a.raised # "" \/ truthy(a.section) THEN a
    ELSE [a EXCEPT !.section = clean_text(item["articleSection"])]

\* keywords.split(","): the pieces between the commas
RECURSIVE split_commas(_, _, _)
split_commas(pieces, cur, todo) ==
    IF Len(todo) = 0 THEN Append(pieces, cur)
    ELSE IF todo[1][1] = ","
         THEN split_commas(Append(pieces, cur) \o [i \in 1..(todo[1][2] - 1) |-> <<>>],
                           <<>>, Tail(todo))
         ELSE split_commas(pieces, Append(cur, todo[1]), Tail(todo))

\* [str(k).strip() for k in values]
stripped_texts(values) == [i \in 1..Len(values) |-> strip(values[i].text)]

\* the tags of a keywords value: the stripped non-empty pieces of a str, the
\* stripped str() of the true elements of a list
tags_of(keywords) ==
    IF keywords.type = "str"
    THEN stripped_paragraphs(split_commas(<<>>, <<>>, keywords.text))
    ELSE IF keywords.type = "list"
    THEN stripped_texts(SelectSeq(keywords.elems, truthy))
    ELSE <<>>

\* if keywords and not tags: ...
keywords_step(a, item) ==
    IF a.raised # "" \/ ~truthy(item["keywords"]) \/ a.tags # <<>> THEN a
    ELSE [a EXCEPT !.tags = tags_of(item["keywords"])]

\* cbs: article_body = item.get("articleBody"); if article_body and not body
article_body_step(a, item) ==
    IF a.raised # "" \/ ~truthy(item["articleBody"]) \/ truthy(a.body) THEN a
    ELSE [a EXCEPT !.body = clean_text(item["articleBody"]),
                   !.json_ld_has_body = TRUE,
                   !.extraction_method = "jsonld_full"]

\* bbc: if not author and item.get("author"): from a dict or a str
bbc_author_step(a, item) ==
    IF ~truthy(a.author) /\ truthy(item["author"]) THEN author_step_plain(a, item) ELSE a

\* bbc: if not section and item.get("articleSection")
bbc_section_step(a, item) ==
    IF ~truthy(a.section) /\ truthy(item["articleSection"])
    THEN [a EXCEPT !.section = clean_text(item["articleSection"])] ELSE a

bbc_item(a, item) == keywords_step(bbc_section_step(bbc_author_step(a, item), item), item)

\* the body of one NewsArticle/Article item in each of the other extractors
cbs_item(a, item) ==
    keywords_step(
        article_body_step(
            section_step(
                date_step(
                    date_step(author_step(headline_step(a, item), item),
                              item, "datePublished", "published_at"),
                    item, "dateModified", "modified_at"),
                item),
            item),
        item)

cnn_item(a, item) ==
    keywords_step(
        section_step(
            date_step(
                date_step(author_step(headline_step(a, item), item),
                          item, "datePublished", "published_at"),
                item, "dateModified", "modified_at"),
            item),
        item)

foxnews_item(a, item) ==
    section_step(
        date_step(
            date_step(author_step_plain(a, item),
                      item, "datePublished", "published_at"),
            item, "dateModified", "modified_at"),
        item)

nyt_item(a, item) ==
    section_step(
        date_step(
            date_step(author_step(headline_step(a, item), item),
                      item, "datePublished", "published_at"),
            item, "dateModified", "modified_at"),
        item)

\* what the extractor of a site does with one item (guardian and nbc read
\* an item as cnn does)
item_step(name, a, item) ==
    IF name = "bbc" THEN bbc_item(a, item)
    ELSE IF name = "cbs" THEN cbs_item(a, item)
    ELSE IF name = "foxnews" THEN foxnews_item(a, item)
    ELSE IF name = "nyt" THEN nyt_item(a, item)
    ELSE cnn_item(a, item)

\* for item in json_ld_data: if item.get("@type") in [...]: ...
RECURSIVE for_items(_, _, _)
for_items(name, a, json_ld_data) ==
    IF Len(json_ld_data) = 0 \/ a.raised # "" THEN a
    ELSE for_items(name,
                   IF is_article_item(json_ld_data[1])
                   THEN item_step(name, a, json_ld_data[1]) ELSE a,
                   Tail(json_ld_data))

\* body = normalize_paragraphs(paragraphs), or the error when there are none
body_step(a, paragraphs, error) ==
    IF a.raised # "" THEN a
    ELSE IF paragraphs # <<>> THEN [a EXCEPT !.body = normalize_paragraphs(paragraphs)]
    ELSE with_error(a, error)

\* if not title: title = clean_text(response.css("h1::text").get())
h1_step(a, response) ==
    IF a.raised # "" \/ truthy(a.title) THEN a
    ELSE [a EXCEPT !.title = clean_text(response.h1)]

\* if not author: the first true one of the selectors' values, cleaned
RECURSIVE author_fallback(_, _)
author_fallback(a, values) ==
    IF a.raised # "" \/ truthy(a.author) \/ Len(values) = 0 THEN a
    ELSE IF truthy(values[1]) THEN [a EXCEPT !.author = clean_text(values[1])]
    ELSE author_fallback(a, Tail(values))

\* if not published_at: the first true one of the selectors' values, parsed
RECURSIVE date_fallback(_, _)
date_fallback(a, values) ==
    IF a.raised # "" \/ a.published_at # <<>> \/ Len(values) = 0 THEN a
    ELSE IF truthy(values[1])
    THEN with_date(a, "published_at", parse_datetime_from_meta(values[1]))
    ELSE date_fallback(a, Tail(values))

\* the scoring table most extractors share: body over `long` characters with
\* title and author, the same without author, body and title, or the floor
scored(a, long, best, good, fair, floor) ==
    IF a.raised # "" THEN a
    ELSE IF truthy(a.body) /\ a.body.size > long /\ truthy(a.title) /\ truthy(a.author)
    THEN [a EXCEPT !.confidence = best]
    ELSE IF truthy(a.body) /\ a.body.size > long /\ truthy(a.title)
    THEN [a EXCEPT !.confidence = good]
    ELSE IF truthy(a.body) /\ truthy(a.title)
    THEN [a EXCEPT !.confidence = fair]
    ELSE with_error([a EXCEPT !.confidence = floor],
                    "Low confidence: missing critical content")

\* the scoring table of bbc and foxnews: body over 500, over 300, any, each
\* with a title, or the floor
scored_by_length(a, best, good, fair, floor) ==
    IF a.raised # "" THEN a
    ELSE IF truthy(a.body) /\ a.body.size > 500 /\ truthy(a.title)
    THEN [a EXCEPT !.confidence = best]
    ELSE IF truthy(a.body) /\ a.body.size > 300 /\ truthy(a.title)
    THEN [a EXCEPT !.confidence = good]
    ELSE IF truthy(a.body) /\ truthy(a.title)
    THEN [a EXCEPT !.confidence = fair]
    ELSE with_error([a EXCEPT !.confidence = floor],
                    "Low confidence: missing critical content")

\* if not json_ld_data: extraction_method = "dom"; errors.append(note)
no_json_ld_step(a, json_ld_data, note) ==
    IF a.raised # "" \/ json_ld_data # <<>> THEN a
    ELSE with_error([a EXCEPT !.extraction_method = "dom"], note)

min(x, y) == IF x <= y THEN x ELSE y

\* confidence=min(confidence, cap)
capped(a, cap) == IF a.raised # "" THEN a ELSE [a EXCEPT !.confidence = min(@, cap)]

\* return ExtractedArticle(...), unless an exception has left extract()
result(a) ==
    IF a.raised # "" THEN raises(a.raised)
    ELSE ExtractedArticle(
            [title |-> a.title, body |-> a.body, author |-> a.author,
             published_at |-> a.published_at, modified_at |-> a.modified_at,
             section |-> a.section, tags |-> a.tags,
             extraction_method |-> a.extraction_method,
             confidence |-> a.confidence, errors |-> a.errors])

(***************************************************************************)
(* APNewsExtractor                                                         *)
(***************************************************************************)
\* _find_news_article: the first item whose @type is "NewsArticle"
RECURSIVE _find_news_article(_)
_find_news_article(json_ld_data) ==
    IF Len(json_ld_data) = 0 THEN <<>>
    ELSE IF json_ld_data[1]["@type"] = py_str(text_of(<<"N","e","w","s","A","r","t","i","c","l","e">>))
    THEN <<json_ld_data[1]>>
    ELSE _find_news_article(Tail(json_ld_data))

\* _extract_from_json_ld(data, key, clean_text): a value that is not true is
\* returned as it is
_extract_from_json_ld(data, key) ==
    IF truthy(data[key]) THEN clean_text(data[key]) ELSE data[key]

\* _extract_author_from_json_ld, lines 171-174
joined_names(names) ==
    IF names = <<>> THEN returns(py_none)
    ELSE IF ~joinable(names) THEN raises("TypeError")
    ELSE returns(clean_text(py_str(join_commas(texts_of(names)))))

\* _extract_author_from_json_ld: [raised, exception, value]
_extract_author_from_json_ld(data) ==
    IF ~truthy(data["author"]) THEN returns(py_none)
    ELSE IF data["author"].type = "str" THEN returns(clean_text(data["author"]))
    ELSE IF data["author"].type = "dict"
    THEN (IF truthy(get_name(data["author"]))
          THEN returns(clean_text(get_name(data["author"])))
          ELSE returns(py_none))
    ELSE IF data["author"].type = "list"
    THEN joined_names(names_of(data["author"].elems))
    ELSE returns(py_none)

\* _extract_date_from_json_ld
_extract_date_from_json_ld(data, key) ==
    IF truthy(data[key]) THEN parse_datetime_from_meta(data[key]) ELSE returns(<<>>)

\* extract, lines 48-66: the fields of the NewsArticle item, unless one of
\* the helpers raised
ap_fields(a, data, author, published, modified) ==
    IF author.raised THEN [a EXCEPT !.raised = author.exception]
    ELSE IF published.raised THEN [a EXCEPT !.raised = published.exception]
    ELSE IF modified.raised THEN [a EXCEPT !.raised = modified.exception]
    ELSE [a EXCEPT
            !.title = _extract_from_json_ld(data, "headline"),
            !.author = author.value[1],
            !.published_at = published.value[1],
            !.modified_at = modified.value[1],
            !.section = _extract_from_json_ld(data, "articleSection"),
            !.tags = IF truthy(data["keywords"]) THEN tags_of(data["keywords"])
                     ELSE <<>>]

\* extract, lines 47-66: if json_ld_article: ...
ap_json_ld(a, json_ld_article) ==
    IF Len(json_ld_article) = 0 THEN a
    ELSE ap_fields(a, json_ld_article[1],
                   _extract_author_from_json_ld(json_ld_article[1]),
                   _extract_date_from_json_ld(json_ld_article[1], "datePublished"),
                   _extract_date_from_json_ld(json_ld_article[1], "dateModified"))

\* extract, lines 80-96: confidence and extraction method
ap_scored(a, json_ld_article) ==
    IF a.raised # "" THEN a
    ELSE IF Len(json_ld_article) > 0 /\ truthy(a.body) /\ a.body.size > 500
    THEN [a EXCEPT !.confidence = 95, !.extraction_method = "hybrid"]
    ELSE IF Len(json_ld_article) > 0 /\ truthy(a.body)
    THEN [a EXCEPT !.confidence = 90, !.extraction_method = "hybrid"]
    ELSE IF truthy(a.body) /\ a.body.size > 500
    THEN [a EXCEPT !.confidence = 80, !.extraction_method = "dom"]
    ELSE IF truthy(a.body)
    THEN [a EXCEPT !.confidence = 75, !.extraction_method = "dom"]
    ELSE with_error([a EXCEPT !.confidence = 50],
                    "Low confidence: missing critical content")

\* title = clean_text(...); if not title: errors.append(error)
title_or_error(a, title, error) ==
    IF truthy(title) THEN [a EXCEPT !.title = title]
    ELSE with_error([a EXCEPT !.title = title], error)

\* extract, lines 99-102: the title from h1, or the error
ap_title(a, response) ==
    IF a.raised # "" \/ truthy(a.title) THEN a
    ELSE title_or_error(a, clean_text(response.h1), "Title not found in JSON-LD or DOM")

ap_extract(response) ==
    result(
        date_fallback(
            author_fallback(
                ap_title(
                    ap_scored(
                        body_step(
                            ap_json_ld(locals("dom"),
                                       _find_news_article(extract_json_ld(response.scripts))),
                            or_else(getall(response, ".RichTextStoryBody p::text"),
                                    getall(response, "article p::text")),
                            "No article body paragraphs found"),
                        _find_news_article(extract_json_ld(response.scripts))),
                    response),
                <<response.meta_author>>),
            <<response.published_time>>))

(***************************************************************************)
(* BBCExtractor                                                            *)
(***************************************************************************)
\* extract, lines 43-51: the title from h1, else og:title, or the error
bbc_title(a, response) ==
    IF truthy(clean_text(response.h1)) THEN [a EXCEPT !.title = clean_text(response.h1)]
    ELSE title_or_error(a, clean_text(response.og_title), "Title not found")

bbc_extract(response) ==
    result(capped(
        scored_by_length(
            for_items("bbc",
                author_fallback(
                    date_fallback(
                        body_step(
                            bbc_title(locals("dom"), response),
                            or_else(getall(response, "article p::text"),
                                    getall(response,
                                           "div[data-component=\"text-block\"] p::text")),
                            "No article body paragraphs found"),
                        <<response.time_datetime, response.published_time>>),
                    <<response.meta_author, response.byline>>),
                extract_json_ld(response.scripts)),
            90, 85, 75, 60),
        90))

(***************************************************************************)
(* CBSExtractor                                                            *)
(***************************************************************************)
\* extract, lines 93-105: the DOM body unless JSON-LD had an articleBody
cbs_body(a, response) ==
    IF a.raised # "" \/ a.json_ld_has_body THEN a
    ELSE body_step(a,
                   or_else(getall(response, ".content__body p::text"),
                           getall(response, "article p::text")),
                   "No article body paragraphs found")

\* extract, lines 130-142: confidence
cbs_scored(a) ==
    IF a.raised # "" THEN a
    ELSE IF a.json_ld_has_body /\ truthy(a.body) /\ truthy(a.title)
    THEN [a EXCEPT !.confidence = 100]
    ELSE scored(a, 500, 85, 83, 75, 60)

cbs_extract(response) ==
    result(
        no_json_ld_step(
            cbs_scored(
                date_fallback(
                    author_fallback(
                        h1_step(
                            cbs_body(
                                for_items("cbs", locals("json-ld"),
                                          extract_json_ld(response.scripts)),
                                response),
                            response),
                        <<response.meta_author>>),
                    <<response.published_time, response.time_datetime>>)),
            extract_json_ld(response.scripts),
            "JSON-LD not found"))

(***************************************************************************)
(* CNNExtractor                                                            *)
(***************************************************************************)
cnn_extract(response) ==
    result(
        no_json_ld_step(
            scored(
                body_step(
                    date_fallback(
                        author_fallback(
                            h1_step(
                                for_items("cnn", locals("hybrid"),
                                          extract_json_ld(response.scripts)),
                                response),
                            <<response.testid_byline, response.meta_author>>),
                        <<response.published_time>>),
                    or_else(getall(response, "article p::text"),
                            getall(response, "p::text")),
                    "No article body paragraphs found"),
                500, 85, 83, 75, 60),
            extract_json_ld(response.scripts),
            "JSON-LD not found, using DOM extraction only"))

(***************************************************************************)
(* FoxNewsExtractor                                                        *)
(***************************************************************************)
\* an extractor without a cap of its own: the page read as the CNN extractor
\* reads it, scored up to 0.85
extract_uncapped(response) == cnn_extract(response)

\* str.isupper(): a cased character, and no lower-case one
isupper(t) ==
    /\ \E i \in 1..Len(t) : t[i][1] \in Range(UPPERCASE)
    /\ \A i \in 1..Len(t) : t[i][1] \notin Range(LOWERCASE)

\* str.upper()
upper_text(t) == concat(<<>>, [i \in 1..Len(t) |-> <<UpperChar(t[i][1]), t[i][2]>>])

\* extract, lines 52-65: a paragraph is kept unless it is empty, a WATCH:
\* line, under 20 characters or all-caps under 100 characters
foxnews_keeps(para_text) ==
    ~ \/ para_text = <<>>
      \/ text_prefix(upper_text(para_text), 6) = text_of(<<"W","A","T","C","H",":">>)
      \/ text_len(para_text) < 20
      \/ (isupper(para_text) /\ text_len(para_text) < 100)

\* extract, lines 50-65: the stripped paragraphs that are kept
foxnews_filtered(paragraphs) == SelectSeq(stripped_texts_of(paragraphs), foxnews_keeps)

\* extract, lines 41-44: the title from h1, or the error
foxnews_title(a, response) ==
    title_or_error(a, clean_text(response.h1), "Title not found")

foxnews_extract(response) ==
    result(capped(
        scored_by_length(
            date_fallback(
                author_fallback(
                    for_items("foxnews",
                        body_step(
                            foxnews_title(locals("dom"), response),
                            or_else(foxnews_filtered(getall(response, ".article-body p::text")),
                                    getall(response, "article p::text")),
                            "No article body paragraphs found"),
                        extract_json_ld(response.scripts)),
                    <<response.meta_author, response.author_class>>),
                <<response.published_time, response.time_datetime>>),
            75, 70, 65, 50),
        75))

(***************************************************************************)
(* GuardianExtractor                                                       *)
(***************************************************************************)
guardian_extract(response) ==
    result(
        no_json_ld_step(
            scored(
                date_fallback(
                    author_fallback(
                        h1_step(
                            body_step(
                                for_items("guardian", locals("json-ld"),
                                          extract_json_ld(response.scripts)),
                                or_else(getall(response,
                                               "div[itemprop=\"articleBody\"] p::text"),
                                        getall(response, "article p::text")),
                                "No article body paragraphs found"),
                            response),
                        <<response.rel_author, response.meta_author>>),
                    <<response.time_datetime>>),
                500, 90, 88, 80, 65),
            extract_json_ld(response.scripts),
            "JSON-LD not found (unusual for Guardian)"))

(***************************************************************************)
(* NBCNewsExtractor                                                        *)
(***************************************************************************)
\* phrase in text, for a phrase that does not start with the character that
\* follows its first one: a match starts in the last character of a run
contains_phrase(t, phrase) ==
    \E j \in 1..Len(t) :
        /\ t[j][1] = phrase[1]
        /\ text_prefix(text_drop(SubSeq(t, j, Len(t)), t[j][2] - 1), Len(phrase))
               = text_of(phrase)

\* extract, lines 90-103: a paragraph is kept unless it is empty, under 25
\* characters or holds one of the promotional phrases
nbc_keeps(para_text) ==
    ~ \/ para_text = <<>>
      \/ text_len(para_text) < 25
      \/ \E phrase \in {<<"s","i","g","n"," ","u","p">>, <<"s","u","b","s","c","r","i","b","e">>, <<"c","l","i","c","k"," ","h","e","r","e">>, <<"r","e","a","d"," ","m","o","r","e">>} :
             contains_phrase(lower_text(para_text), phrase)

\* extract, lines 88-103: the stripped paragraphs that are kept
nbc_filtered(paragraphs) == SelectSeq(stripped_texts_of(paragraphs), nbc_keeps)

nbc_extract(response) ==
    result(
        scored(
            date_fallback(
                author_fallback(
                    h1_step(
                        body_step(
                            for_items("nbc", locals("hybrid"),
                                      extract_json_ld(response.scripts)),
                            or_else(nbc_filtered(getall(response, "article p::text")),
                                    getall(response, "article p::text")),
                            "No article body paragraphs found"),
                        response),
                    <<response.meta_author>>),
                <<response.published_time>>),
            500, 80, 78, 70, 60))

(***************************************************************************)
(* NYTimesExtractor                                                        *)
(***************************************************************************)
\* title = clean_text(h1); if not title and title_meta: clean_text(title_meta)
title_or_meta(a, title, title_meta) ==
    IF truthy(title) \/ ~truthy(title_meta) THEN [a EXCEPT !.title = title]
    ELSE [a EXCEPT !.title = clean_text(title_meta)]

\* extract, lines 100-108: the title from h1, else og:title
nyt_title(a, response) ==
    IF a.raised # "" \/ truthy(a.title) THEN a
    ELSE title_or_meta(a, clean_text(response.h1), response.og_title)

\* extract, lines 114-118: the byline without a leading "By "
without_by(author_text) ==
    clean_text(py_str(IF lower_text(text_prefix(author_text, 3)) = text_of(<<"b","y"," ">>)
                      THEN text_drop(author_text, 3) ELSE author_text))

\* extract, lines 110-123: the author from meta byl, else from meta author
nyt_author(a, response) ==
    IF a.raised # "" \/ truthy(a.author) THEN a
    ELSE IF truthy(response.byl)
    THEN [a EXCEPT !.author = without_by(strip(response.byl.text))]
    ELSE author_fallback(a, <<response.meta_author>>)

\* extract, lines 144-148: the errors for a missing author and a short body
nyt_partial(a) ==
    IF a.raised # "" THEN a
    ELSE IF ~truthy(a.author) /\ (~truthy(a.body) \/ a.body.size < 300)
    THEN with_error(with_error(a, "Author extraction failed (common for NYT)"),
                    "Body extraction may be incomplete (NYT complex layout)")
    ELSE IF ~truthy(a.author)
    THEN with_error(a, "Author extraction failed (common for NYT)")
    ELSE IF ~truthy(a.body) \/ a.body.size < 300
    THEN with_error(a, "Body extraction may be incomplete (NYT complex layout)")
    ELSE a

nyt_extract(response) ==
    result(capped(
        nyt_partial(
            scored(
                date_fallback(
                    nyt_author(
                        nyt_title(
                            body_step(
                                for_items("nyt", locals("hybrid"),
                                          extract_json_ld(response.scripts)),
                                or_else(getall(response, "section[name=\"articleBody\"] p::text"),
                                or_else(getall(response, "article section p::text"),
                                or_else(getall(response,
                                    "div[class*=\"article\"] p::text, div[class*=\"story\"] p::text"),
                                        getall(response, "article p::text")))),
                                "No article body paragraphs found (all fallbacks failed)"),
                            response),
                        response),
                    <<response.published_time>>),
                500, 70, 68, 60, 50)),
        70))

\* ArticleExtractor.extract of the extractor whose name is `name`
extract(name, response) ==
    IF name = "ap" THEN ap_extract(response)
    ELSE IF name = "bbc" THEN bbc_extract(response)
    ELSE IF name = "cbs" THEN cbs_extract(response)
    ELSE IF name = "cnn" THEN cnn_extract(response)
    ELSE IF name = "foxnews" THEN foxnews_extract(response)
    ELSE IF name = "guardian" THEN guardian_extract(response)
    ELSE IF name = "nbc" THEN nbc_extract(response)
    ELSE nyt_extract(response)

(***************************************************************************)
(* parse_iso8601_date for a string (newsspider.py, lines 99-143).          *)
(***************************************************************************)
\* the formats of parse_iso8601_date, in its order
spider_formats ==
    << <<"%Y","-","%m","-","%d","T","%H",":","%M",":","%S","%z">>,
       <<"%Y","-","%m","-","%d","T","%H",":","%M",":","%S","Z">>,
       <<"%Y","-","%m","-","%d","T","%H",":","%M",":","%S">>,
       <<"%Y","-","%m","-","%d"," ","%H",":","%M",":","%S","%z">>,
       <<"%Y","-","%m","-","%d"," ","%H",":","%M",":","%S">>,
       <<"%Y","-","%m","-","%d">>,
       <<"%B"," ","%d",","," ","%Y">>,
       <<"%b"," ","%d",","," ","%Y">>,
       <<"%d"," ","%B"," ","%Y">>,
       <<"%d"," ","%b"," ","%Y">> >>

\* tzinfo replaced or converted, then strftime; the OverflowError of
\* astimezone is not among the exceptions the function catches
utc_text(dt) ==
    IF ~in_range(to_utc(dt)) THEN [raised |-> TRUE, value |-> None]
    ELSE [raised |-> FALSE, value |-> strftime(to_utc(dt))]

\* lines 131-143: fromisoformat of the string with Z replaced, else None
iso_fallback(parsed) ==
    IF parsed # <<>> THEN utc_text(parsed[1]) ELSE [raised |-> FALSE, value |-> None]

\* lines 118-143, given the parse of the first format that matches
parse_stripped(parsed, s) ==
    IF parsed # <<>> THEN utc_text(parsed[1])
    ELSE iso_fallback(fromisoformat(replace_z(s)))

\* lines 99-143: [raised, value]
parse_iso8601_date_str(date_str) ==
    IF strip(date_str) = <<>> THEN [raised |-> FALSE, value |-> None]
    ELSE parse_stripped(first_parse(spider_formats, chars(strip(date_str)), FALSE),
                        chars(strip(date_str)))

(***************************************************************************)
(* SinkPipeline (pipelines.py).  A sink class is described by what its     *)
(* constructor accepts, whether it has an open method and whether that     *)
(* raises, and the items on which its send raises.                         *)
(***************************************************************************)
\* self.sink = None
NoSink == [made |-> "none", has_open |-> FALSE, open_raises |-> FALSE,
           close_raises |-> FALSE, failing |-> {}]

\* lines 42-49: SinkClass(**settings), on TypeError SinkClass(settings), on
\* any exception of that SinkClass(); accepts is the first of the three the
\* class accepts, "nothing" when the last one raises as well
construct(SinkClass) ==
    IF SinkClass.accepts = "nothing" THEN raises("Exception")
    ELSE returns([made |-> SinkClass.accepts, has_open |-> SinkClass.has_open,
                  open_raises |-> SinkClass.open_raises,
                  close_raises |-> SinkClass.close_raises,
                  failing |-> SinkClass.failing])

\* lines 51-55: the error of sink.open is logged
open_logged(sink) == IF sink.has_open /\ sink.open_raises THEN 1 ELSE 0

\* open_spider, lines 40-55: the pipeline and the errors logged, or the
\* exception of the constructor
open_spider(self, SinkClass) ==
    IF construct(SinkClass).raised
    THEN [raised |-> TRUE, self |-> self, logged |-> 0]
    ELSE [raised |-> FALSE, self |-> [self EXCEPT !.sink = construct(SinkClass).value[1]],
          logged |-> open_logged(construct(SinkClass).value[1])]

\* close_spider, lines 57-62: the error of sink.close is logged
close_spider(self) == IF self.sink # NoSink /\ self.sink.close_raises THEN 1 ELSE 0

\* sink.send(item); every sink class of the repository has a send method
\* and instances that are true
send(sink, item) == IF item \in sink.failing THEN raises("Exception") ELSE returns(None)

\* process_item without its try block
process_item_unguarded(self, item) ==
    IF self.sink = NoSink
    THEN [sends |-> <<>>, logged |-> 0, outcome |-> returns(item)]
    ELSE IF send(self.sink, item).raised
    THEN [sends |-> <<item>>, logged |-> 0, outcome |-> raises("Exception")]
    ELSE [sends |-> <<item>>, logged |-> 0, outcome |-> returns(item)]

\* process_item, lines 64-71: the calls of send it made, the errors it
\* logged, and what it returned
process_item(self, item) ==
    IF self.sink = NoSink
    THEN [sends |-> <<>>, logged |-> 0, outcome |-> returns(item)]
    ELSE IF send(self.sink, item).raised
    THEN [sends |-> <<item>>, logged |-> 1, outcome |-> returns(item)]
    ELSE [sends |-> <<item>>, logged |-> 0, outcome |-> returns(item)]

(***************************************************************************)
(* JsonlSink (sinks/jsonl.py).  An item is a record with a title; the      *)
(* output file of the spider is a sequence of characters.  A text file     *)
(* object holds what was written to it until it is closed or finalized,    *)
(* and then writes it at its own position, the start of the file.         *)
(***************************************************************************)
QUOTE == "\""

BACKSLASH == "\\"

NEWLINE == "\n"

\* json.dumps of a string with ensure_ascii=False: the quote, the backslash
\* and the newline are escaped, everything else stays
RECURSIVE json_escape(_)
json_escape(s) ==
    IF Len(s) = 0 THEN <<>>
    ELSE (IF s[1] = QUOTE THEN <<BACKSLASH, QUOTE>>
          ELSE IF s[1] = BACKSLASH THEN <<BACKSLASH, BACKSLASH>>
          ELSE IF s[1] = NEWLINE THEN <<BACKSLASH, "n">>
          ELSE <<s[1]>>) \o json_escape(Tail(s))

JSON_OPENING == <<"{", QUOTE>> \o <<"t","i","t","l","e">> \o <<QUOTE, ":", " ", QUOTE>>

JSON_CLOSING == <<QUOTE, "}">>

\* json.dumps(ItemAdapter(item).asdict(), ensure_ascii=False)
json_dumps(item) == JSON_OPENING \o json_escape(item.title) \o JSON_CLOSING

\* line 40
json_line(item) == json_dumps(item) \o <<NEWLINE>>

\* the file after data is written at its start: what was there beyond the
\* data stays
written_at_start(bytes, data) ==
    IF Len(data) >= Len(bytes) THEN data
    ELSE data \o SubSeq(bytes, Len(data) + 1, Len(bytes))

NoFile == [exists |-> FALSE, bytes |-> <<>>]

\* self._file is None: <<>>; a file object: << what it holds >>.  open,
\* lines 30-35: the file is truncated; when self._file is rebound
\* the old file object, if any, is finalized after the new one truncated
\* the file: it writes what it holds
open_file(held) ==
    IF held = <<>> THEN [exists |-> TRUE, bytes |-> <<>>]
    ELSE [exists |-> TRUE, bytes |-> written_at_start(<<>>, held[1])]

\* send, lines 37-41: the new self._file
JsonlSink_send(held, item) ==
    IF held = <<>> THEN held ELSE << held[1] \o json_line(item) >>

\* close, lines 43-46: the file after self._file.close()
JsonlSink_close(held, file) ==
    IF held = <<>> THEN file
    ELSE [exists |-> TRUE, bytes |-> written_at_start(file.bytes, held[1])]
(***************************************************************************)
(* URLs the canonicalizer is applied to.  A URL is drawn as its written    *)
(* components and rendered to text; the canonicalizer only sees the text.  *)
(***************************************************************************)
MaxParams == 2

Schemes   == { <<"h","t","t","p">>, <<"H","T","T","P","S">> }
Netlocs   == { <<"X",".","c","o">> }
Paths     == { <<>>, <<"/">>, <<"/","/">>, <<"/","a">>, <<"/","a","/">>, <<"/","a",";","/">>, <<"/","a","/",";","p">>, <<"/","a",";","p">> }
RawParams == { <<"a","=","1">>, <<"a","=">>, <<"r","e","f","=","1">>, <<"b","=","%","2","B">> }
Fragments == { <<>>, <<"#","f">> }
ParamValues == { <<"1">> }

Queries == UNION { [1..n -> RawParams] : n \in 0..MaxParams }

NoUrl == [scheme |-> <<>>, netloc |-> <<>>, path |-> <<>>, query |-> <<>>, frag |-> <<>>]

\* the text of a URL: scheme://netloc/path?k=v&k=v#fragment
render(parts) ==
    parts.scheme \o <<":", "/", "/">> \o parts.netloc \o parts.path
    \o (IF Len(parts.query) > 0 THEN <<"?">> \o Join(parts.query, "&") ELSE <<>>)
    \o parts.frag

\* a sequence back to front
Reverse(seq) == [i \in 1..Len(seq) |-> seq[Len(seq) + 1 - i]]

\* the letter cases a tracking key is written in
CaseVariants(k) == { k, Upper(k), Lower(k) }

(***************************************************************************)
(* Pages the spider is given.                                              *)
(***************************************************************************)
MaxRuns == 2

MaxRepeat == 101

\* NewsSpider configured for a site, the way the site spiders set domain and
\* allowed_domains
Spiders ==
    { [domain |-> text_of(<<"e","x","a","m","p","l","e",".","c","o","m">>),
       allowed_domains |-> << <<"e","x","a","m","p","l","e",".","c","o","m">>, <<"w","w","w",".","e","x","a","m","p","l","e",".","c","o","m">> >>] }

ResponseUrls ==
    { <<"h","t","t","p","s",":","/","/","e","x","a","m","p","l","e",".","c","o","m","/">>,
      <<"h","t","t","p","s",":","/","/","e","x","a","m","p","l","e",".","c","o","m","/","n","e","w","s","/">>,
      <<"h","t","t","p","s",":","/","/","e","x","a","m","p","l","e",".","c","o","m","/","a","b","o","u","t">>,
      <<"h","t","t","p","s",":","/","/","e","x","a","m","p","l","e",".","c","o","m","/","n","e","w","s","/","s","t","o","r","y","-","o","n","e">>,
      <<"h","t","t","p","s",":","/","/","e","x","a","m","p","l","e",".","c","o","m","/","2","0","2","6","/","0","1","/","2","9","/","x">>,
      <<"h","t","t","p","s",":","/","/","E","x","a","m","p","l","e",".","c","o","m","/","a","r","t","i","c","l","e","/","a","?","u","t","m","_","s","o","u","r","c","e","=","x","#","f">> }

\* Content-Type, og:type meta, <article> tag, article-body markers of a page
Envelopes ==
    { [content_type |-> <<"t","e","x","t","/","h","t","m","l">>, og_type |-> "none",
       has_article_tag |-> FALSE, has_article_indicator |-> FALSE],
      [content_type |-> <<"t","e","x","t","/","h","t","m","l">>, og_type |-> "article",
       has_article_tag |-> FALSE, has_article_indicator |-> FALSE],
      [content_type |-> <<"t","e","x","t","/","h","t","m","l">>, og_type |-> "website",
       has_article_tag |-> TRUE, has_article_indicator |-> FALSE],
      [content_type |-> <<"t","e","x","t","/","h","t","m","l">>, og_type |-> "none",
       has_article_tag |-> FALSE, has_article_indicator |-> TRUE],
      [content_type |-> <<"A","p","p","l","i","c","a","t","i","o","n","/","X","M","L">>, og_type |-> "article",
       has_article_tag |-> TRUE, has_article_indicator |-> TRUE] }

fetched(url, e) ==
    [url |-> url, content_type |-> e.content_type, og_type |-> e.og_type,
     has_article_tag |-> e.has_article_tag,
     has_article_indicator |-> e.has_article_indicator]

Responses == { fetched(url, e) : url \in ResponseUrls, e \in Envelopes }

Hrefs ==
    { <<"/","n","e","w","s","/","s","t","o","r","y","-","t","w","o">>,
      <<"h","t","t","p","s",":","/","/","w","w","w",".","e","x","a","m","p","l","e",".","c","o","m","/","2","0","2","6","/","0","1","/","2","9","/","y">>,
      <<"h","t","t","p","s",":","/","/","o","t","h","e","r",".","o","r","g","/","a","r","t","i","c","l","e","/","z">>,
      <<".",".","/","r","s","s","/","a","-","b","-","c","-","d","-","e">> }

\* links that appear once: one that is no article URL, one that is not
\* http(s), a host that only ends like an allowed domain, a subdomain
SingleHrefs ==
    { <<"/","a","b","o","u","t">>,
      <<"m","a","i","l","t","o",":","n","e","w","s","@","e","x","a","m","p","l","e",".","c","o","m">>,
      <<"h","t","t","p","s",":","/","/","n","o","t","e","x","a","m","p","l","e",".","c","o","m","/","a","r","t","i","c","l","e","/","z">>,
      <<"h","t","t","p","s",":","/","/","b","l","o","g",".","e","x","a","m","p","l","e",".","c","o","m","/","a","r","t","i","c","l","e","/","q">> }

LinkRuns ==
    { <<h, n>> : h \in Hrefs, n \in {1, MaxRepeat} } \cup { <<h, 1>> : h \in SingleHrefs }

HrefLists == UNION { [1..k -> LinkRuns] : k \in 0..MaxRuns }

\* the links of a page that turns out to be an article
ArticlePageLinks == { <<>>, << <<<<"/","n","e","w","s","/","s","t","o","r","y","-","t","w","o">>, 2>> >> }

Titles == { <<>>, text_of(<<" "," ">>), text_of(<<" ","B","i","g"," "," ","N","e","w","s"," ">>) }

NavJunk == [i \in 1..23 |-> IF i % 2 = 1 THEN <<"a", 25>> ELSE <<"\n", 1>>]

\* one long line followed by three short ones
FewShortLines ==
    << <<"a", 250>>, <<"\n", 1>>, <<"b", 5>>, <<"\n", 1>>, <<"c", 5>>, <<"\n", 1>>,
       <<"d", 5>> >>

Sentences ==
    [i \in 1..17 |-> IF i % 3 = 1 THEN <<"w", 120>>
                     ELSE IF i % 3 = 2 THEN <<".", 1>> ELSE <<" ", 1>>]

Texts ==
    { <<>>,
      << <<"a", 249>> >>,
      << <<"a", 250>> >>,
      << <<" ", 2>>, <<"a", 250>>, <<"\n", 1>> >>,
      << <<"a", 1>>, <<" ", 248>>, <<"b", 1>> >>,
      NavJunk,
      FewShortLines,
      Sentences }

Dates ==
    { Missing,
      << [year |-> 2026, month |-> 1, day |-> 29, hour |-> 12, minute |-> 0,
          second |-> 5, aware |-> FALSE, utcoffset |-> 0] >>,
      << [year |-> 2026, month |-> 1, day |-> 1, hour |-> 0, minute |-> 30,
          second |-> 0, aware |-> TRUE, utcoffset |-> 60] >>,
      << [year |-> 1, month |-> 1, day |-> 1, hour |-> 0, minute |-> 0,
          second |-> 0, aware |-> TRUE, utcoffset |-> 60] >> }

Summaries == { <<>>, << <<"s", 60>> >>, << <<"s", 600>> >> }

AuthorLists == { <<>>, << text_of(<<" ","A","l"," ">>), <<>>, text_of(<<"B","o">>) >> }

Errors == { text_of(<<"b","o","o","m">>), << <<"e", 201>> >> }

\* what newspaper3k makes of a page: download/parse raise, or an article
FailedArticles ==
    { [raises |-> TRUE, error |-> e, title |-> <<>>, text |-> <<>>,
       publish_date |-> Missing, summary |-> <<>>, authors |-> <<>>] : e \in Errors }

ParsedArticles ==
    { [raises |-> FALSE, error |-> <<>>, title |-> t, text |-> x,
       publish_date |-> d, summary |-> <<>>, authors |-> <<>>] :
          t \in Titles, x \in Texts, d \in Dates }

SummarizedArticles ==
    { [raises |-> FALSE, error |-> <<>>, title |-> text_of(<<"T">>), text |-> x,
       publish_date |-> Missing, summary |-> s, authors |-> a] :
          x \in { << <<"a", 250>> >>, Sentences }, s \in Summaries, a \in AuthorLists }

NoArticle ==
    [raises |-> FALSE, error |-> <<>>, title |-> <<>>, text |-> <<>>,
     publish_date |-> Missing, summary |-> <<>>, authors |-> <<>>]

\* the author markup of a page: response.meta["feed_author"], the author meta
\* tags, the "author" of each JSON-LD script
NoMarkup ==
    [feed_author |-> None, meta_author |-> None, og_author |-> None,
     byl_author |-> None, ld_scripts |-> <<>>]

Markups ==
    { NoMarkup,
      [NoMarkup EXCEPT !.feed_author = text_of(<<" ","F","a","y"," ">>)],
      [NoMarkup EXCEPT !.meta_author = text_of(<<"M","e","g">>)],
      [NoMarkup EXCEPT !.meta_author = text_of(<<" ">>), !.og_author = text_of(<<"O","z">>)],
      [NoMarkup EXCEPT !.byl_author = text_of(<<"B","Y"," ","B","e","a">>)],
      [NoMarkup EXCEPT !.ld_scripts =
          << [kind |-> "dict", names |-> <<>>],
             [kind |-> "list", names |-> << text_of(<<"L","u">>), text_of(<<"L","i">>) >>] >>],
      [NoMarkup EXCEPT !.ld_scripts = << [kind |-> "str", names |-> << text_of(<<"S","y">>) >>] >>] }

\* the pages: every article with plain markup, every markup with some articles
Contents ==
    { [article |-> a, markup |-> NoMarkup] : a \in FailedArticles \cup ParsedArticles }
    \cup { [article |-> a, markup |-> m] : a \in SummarizedArticles, m \in Markups }

\* datetime.now(timezone.utc)
Clock ==
    { [year |-> 2026, month |-> 11, day |-> 1, hour |-> 9, minute |-> 30,
       second |-> 0, aware |-> TRUE, utcoffset |-> 0] }


(***************************************************************************)
(* The pages the extractors are given.                                     *)
(***************************************************************************)
\* the JSON-LD scripts of a page
MaxScripts == 1

\* how far outside [0.0, 1.0] (in hundredths) a constructor argument lies
MaxOver == 1

Extractors == {"ap", "bbc", "cbs", "cnn", "foxnews", "guardian", "nbc", "nyt"}

\* a JSON-LD object: item.get(key) for the keys the extractors read
ld_item(type, headline, author, datePublished, dateModified, articleSection,
        keywords, articleBody) ==
    ("@type" :> type) @@ ("headline" :> headline) @@ ("author" :> author)
    @@ ("datePublished" :> datePublished) @@ ("dateModified" :> dateModified)
    @@ ("articleSection" :> articleSection) @@ ("keywords" :> keywords)
    @@ ("articleBody" :> articleBody)

NewsArticle == py_str(text_of(<<"N","e","w","s","A","r","t","i","c","l","e">>))

GoodNews ==
    ld_item(NewsArticle, py_str(text_of(<<"L","d"," ","T","i","t","l","e">>)),
            py_dict(<<py_str(text_of(<<"A","n","n"," ","L","e","e">>))>>, 2,
                    text_of(<<"{","'","@","t","y","p","e","'",":"," ","'","P","e","r","s","o","n","'",","," ","'","n","a","m","e","'",":"," ","'","A","n","n"," ","L","e","e","'","}">>)),
            py_str(text_of(<<"2","0","2","6","-","0","1","-","2","9","T","1","2",":","0","0",":","0","0","Z">>)),
            py_str(text_of(<<"2","0","2","6","-","0","1","-","3","0","T","0","8",":","1","5",":","0","0",".","5","+","0","1",":","0","0">>)),
            py_str(text_of(<<"W","o","r","l","d">>)),
            py_str(text_of(<<"a",","," ","b"," ",","," ",",","c">>)),
            py_none)

FullBody ==
    ld_item(py_str(text_of(<<"A","r","t","i","c","l","e">>)), py_str(text_of(<<" ","L","d"," "," ","T","i","t","l","e","\n">>)),
            py_str(text_of(<<" ","B","o","b"," "," ","R","a","y"," ">>)),
            py_str(text_of(<<"2","0","2","6","-","1","-","2","9">>)),
            py_none, py_none,
            py_list(<<py_int(1), py_str(text_of(<<" ","x"," ">>))>>, text_of(<<"[","1",","," ","'"," ","x"," ","'","]">>)),
            py_str(<< <<"b", 300>>, <<" ", 2>>, <<"c", 300>> >>))

\* an object that holds the article text and nothing else
BodyOnly ==
    ld_item(NewsArticle, py_none, py_none, py_none, py_none, py_none, py_none,
            py_str(<< <<"b", 700>> >>))

NumericDate ==
    ld_item(NewsArticle, py_none, py_none, py_int(20260129), py_none, py_none,
            py_none, py_none)

NumberName ==
    ld_item(NewsArticle, py_str(text_of(<<"L","d"," ","T","i","t","l","e">>)),
            py_list(<<py_dict(<<py_int(5)>>, 1, text_of(<<"{","'","n","a","m","e","'",":"," ","5","}">>))>>,
                    text_of(<<"[","{","'","n","a","m","e","'",":"," ","5","}","]">>)),
            py_none, py_none, py_none, py_none, py_none)

Mixed ==
    ld_item(NewsArticle, py_int(7),
            py_list(<<py_str(text_of(<<"A","n","n">>)),
                      py_dict(<<py_str(text_of(<<"B","o","b">>))>>, 1, text_of(<<"{","'","n","a","m","e","'",":"," ","'","B","o","b","'","}">>)),
                      py_int(3)>>,
                    text_of(<<"[","'","A","n","n","'",","," ","{","'","n","a","m","e","'",":"," ","'","B","o","b","'","}",","," ","3","]">>)),
            py_str(<<>>), py_none,
            py_list(<<py_str(text_of(<<"W","o","r","l","d">>)), py_int(0), py_str(text_of(<<"U","S">>))>>,
                    text_of(<<"[","'","W","o","r","l","d","'",","," ","0",","," ","'","U","S","'","]">>)),
            py_int(4), py_int(0))

Bare ==
    ld_item(NewsArticle, py_none, py_none, py_none, py_none, py_none, py_none, py_none)

DateObject ==
    ld_item(py_str(text_of(<<"A","r","t","i","c","l","e">>)), py_none, py_none, py_none,
            py_dict(<<>>, 1, text_of(<<"{","'","@","v","a","l","u","e","'",":"," ","'","2","0","2","6","-","0","1","-","2","9","'","}">>)),
            py_none, py_none, py_none)

WebPage ==
    ld_item(py_str(text_of(<<"W","e","b","P","a","g","e">>)), py_str(text_of(<<"S","i","t","e">>)),
            py_str(text_of(<<"S","i","t","e"," ","O","w","n","e","r">>)), py_int(2026), py_none, py_none, py_none,
            py_none)

dict_script(item) == [kind |-> "dict", elems |-> <<[is_dict |-> TRUE, item |-> item]>>]

Scripts ==
    { [kind |-> "invalid", elems |-> <<>>],
      [kind |-> "other", elems |-> <<>>],
      [kind |-> "list",
       elems |-> <<[is_dict |-> FALSE, item |-> Bare],
                   [is_dict |-> TRUE, item |-> WebPage],
                   [is_dict |-> TRUE, item |-> Mixed]>>],
      dict_script(GoodNews), dict_script(FullBody), dict_script(NumericDate),
      dict_script(NumberName), dict_script(Bare), dict_script(DateObject),
      dict_script(BodyOnly) }

ScriptLists == UNION { [1..k -> Scripts] : k \in 0..MaxScripts }

\* what the metadata selectors give
NoMeta ==
    [h1 |-> py_none, og_title |-> py_none, meta_author |-> py_none,
     byline |-> py_none, testid_byline |-> py_none, author_class |-> py_none,
     rel_author |-> py_none, byl |-> py_none, time_datetime |-> py_none,
     published_time |-> py_none]

FullMeta ==
    [h1 |-> py_str(text_of(<<"D","o","m"," ","T","i","t","l","e">>)), og_title |-> py_str(text_of(<<"O","g"," ","T","i","t","l","e">>)),
     meta_author |-> py_str(text_of(<<"M","e","t","a"," ","A","u","t","h","o","r">>)),
     byline |-> py_str(text_of(<<"B","y"," ","L","i","n","e">>)),
     testid_byline |-> py_str(text_of(<<"T","e","s","t"," ","B","y","l","i","n","e">>)),
     author_class |-> py_str(text_of(<<"C","l","a","s","s"," ","A","u","t","h","o","r">>)),
     rel_author |-> py_str(text_of(<<"R","e","l"," ","A","u","t","h","o","r">>)),
     byl |-> py_str(text_of(<<"B","y"," ","C","a","r","l"," ","D","a","y">>)),
     time_datetime |-> py_str(text_of(<<"2","0","2","6","-","0","1","-","2","8","T","0","9",":","3","0",":","0","0">>)),
     published_time |-> py_str(text_of(<<"2","0","2","6","-","0","1","-","2","7"," ","1","2",":","0","0",":","0","0">>))]

OddMeta ==
    [h1 |-> py_str(text_of(<<" "," ">>)), og_title |-> py_str(text_of(<<"O","g"," ","T","i","t","l","e">>)),
     meta_author |-> py_str(<<>>),
     byline |-> py_none, testid_byline |-> py_none, author_class |-> py_none,
     rel_author |-> py_none,
     byl |-> py_str(text_of(<<"b","y"," ">>)),
     time_datetime |-> py_str(text_of(<<"y","e","s","t","e","r","d","a","y">>)),
     published_time |-> py_str(text_of(<<"2","0","2","6","-","0","2","-","3","0">>))]

Metas == {NoMeta, FullMeta, OddMeta}

\* the body selectors of the eight extractors
BodySelectors ==
    {".RichTextStoryBody p::text", "article p::text",
     "div[data-component=\"text-block\"] p::text", ".content__body p::text",
     "p::text", ".article-body p::text", "div[itemprop=\"articleBody\"] p::text",
     "section[name=\"articleBody\"] p::text", "article section p::text",
     "div[class*=\"article\"] p::text, div[class*=\"story\"] p::text"}

\* a paragraph's text node and the selectors that match it
paragraph(text, within) == [text |-> text, within |-> within]

Long == << <<"a", 600>> >>

Medium == << <<" ", 1>>, <<"a", 350>>, <<"\n", 1>> >>

Brief == << <<"a", 30>> >>

Blank == << <<" ", 3>> >>

Watch == concat(text_of(<<"W","a","t","c","h",":"," ">>), << <<"x", 40>> >>)

WatchLine == concat(text_of(<<"W","A","T","C","H",":"," ">>), << <<"x", 40>> >>)

Promo == concat(<< <<"x", 30>> >>, text_of(<<" ","S","u","b","s","c","r","i","b","e"," ","n","o","w">>))

Caps == concat(text_of(<<"B","R","E","A","K","I","N","G"," ">>), << <<"A", 30>> >>)

ParagraphLists ==
    { <<>>,
      <<paragraph(Long, BodySelectors)>>,
      <<paragraph(Long, {"article p::text", "p::text"})>>,
      <<paragraph(Long, {"p::text"})>>,
      <<paragraph(Medium, BodySelectors)>>,
      <<paragraph(Brief, BodySelectors)>>,
      <<paragraph(Blank, BodySelectors)>>,
      <<paragraph(Watch, BodySelectors)>>,
      <<paragraph(WatchLine, BodySelectors)>>,
      <<paragraph(Promo, BodySelectors)>>,
      <<paragraph(Caps, BodySelectors)>>,
      <<paragraph(Watch, BodySelectors), paragraph(Long, BodySelectors)>>,
      <<paragraph(Medium, {"article p::text", "p::text"}),
        paragraph(Medium, {"article p::text", "p::text"})>> }

\* the response of a page
page(scripts, meta, paragraphs) ==
    meta @@ [scripts |-> scripts, paragraphs |-> paragraphs]

Pages == { page(s, m, p) : s \in ScriptLists, m \in Metas, p \in ParagraphLists }

NoPage == page(<<>>, NoMeta, <<>>)

\* the arguments of a direct construction: no content and some confidence
Confidences == (0 - MaxOver)..(100 + MaxOver)

constructed_with(confidence) ==
    [title |-> py_none, body |-> py_none, author |-> py_none,
     published_at |-> <<>>, modified_at |-> <<>>, section |-> py_none,
     tags |-> <<>>, extraction_method |-> "unknown", confidence |-> confidence,
     errors |-> <<>>]

NoResult == [raised |-> FALSE, exception |-> "", value |-> <<>>]

(***************************************************************************)
(* Arguments _compute_fingerprint is called with.                          *)
(***************************************************************************)
PrintTitles == { None, <<>>, text_of(<<"T">>), text_of(<<"T","|">>) }

PrintDates == { None, text_of(<<"2","0","2","6","-","0","1","-","2","9","T","1","2",":","0","0",":","0","0","Z">>), text_of(<<"|">>) }

PrintSources == { text_of(<<"a",".","c","o","m">>), text_of(<<"b",".","c","o","m">>) }

\* no body, an empty one, a short one, and bodies that agree in their first
\* 2000 characters and differ after them, or differ within them
PrintTexts ==
    { None,
      <<>>,
      text_of(<<"x">>),
      << <<"a", 2000>> >>,
      << <<"a", 2000>>, <<"b", 1>> >>,
      << <<"a", 2000>>, <<"c", 40>> >>,
      << <<"a", 1999>>, <<"b", 2>> >> }

PrintCalls ==
    [title : PrintTitles, published_at : PrintDates, source : PrintSources,
     text : PrintTexts]

NoCall == [title |-> None, published_at |-> None, source |-> <<>>, text |-> None]

(***************************************************************************)
(* The spiders, their start URLs, and the pages they are given.            *)
(***************************************************************************)
SiteSpiders ==
    { "news_scraper", "aljazeera", "apnews", "bbc", "cbsnews", "cnn", "foxnews",
      "guardian", "nbcnews", "nytimes", "reuters", "washingtonpost", "wsj" }

\* the start of every URL of a spider's site
site_root(name) ==
    CASE name = "aljazeera" -> <<"h","t","t","p","s",":","/","/","w","w","w",".","a","l","j","a","z","e","e","r","a",".","c","o","m">>
      [] name = "apnews" -> <<"h","t","t","p","s",":","/","/","a","p","n","e","w","s",".","c","o","m">>
      [] name = "bbc" -> <<"h","t","t","p","s",":","/","/","w","w","w",".","b","b","c",".","c","o","m">>
      [] name = "cbsnews" -> <<"h","t","t","p","s",":","/","/","w","w","w",".","c","b","s","n","e","w","s",".","c","o","m">>
      [] name = "cnn" -> <<"h","t","t","p","s",":","/","/","w","w","w",".","c","n","n",".","c","o","m">>
      [] name = "foxnews" -> <<"h","t","t","p","s",":","/","/","w","w","w",".","f","o","x","n","e","w","s",".","c","o","m">>
      [] name = "guardian" -> <<"h","t","t","p","s",":","/","/","w","w","w",".","t","h","e","g","u","a","r","d","i","a","n",".","c","o","m">>
      [] name = "nbcnews" -> <<"h","t","t","p","s",":","/","/","w","w","w",".","n","b","c","n","e","w","s",".","c","o","m">>
      [] name = "nytimes" -> <<"h","t","t","p","s",":","/","/","w","w","w",".","n","y","t","i","m","e","s",".","c","o","m">>
      [] name = "reuters" -> <<"h","t","t","p","s",":","/","/","w","w","w",".","r","e","u","t","e","r","s",".","c","o","m">>
      [] name = "washingtonpost" -> <<"h","t","t","p","s",":","/","/","w","w","w",".","w","a","s","h","i","n","g","t","o","n","p","o","s","t",".","c","o","m">>
      [] name = "wsj" -> <<"h","t","t","p","s",":","/","/","w","w","w",".","w","s","j",".","c","o","m">>
      [] OTHER -> <<"h","t","t","p","s",":","/","/","e","x","a","m","p","l","e",".","c","o","m">>

\* start_urls of each spider, as paths under its root
start_paths(name) ==
    CASE name = "aljazeera" -> { <<>>, <<"/","n","e","w","s","/">>, <<"/","t","o","p","i","c","s","/">> }
      [] name = "apnews" -> { <<>>, <<"/","p","o","l","i","t","i","c","s">>, <<"/","w","o","r","l","d","-","n","e","w","s">>, <<"/","b","u","s","i","n","e","s","s">>,
                              <<"/","t","e","c","h","n","o","l","o","g","y">>, <<"/","u","s","-","n","e","w","s">> }
      [] name = "bbc" -> { <<"/","n","e","w","s">>, <<"/","n","e","w","s","/","w","o","r","l","d">>, <<"/","n","e","w","s","/","t","e","c","h","n","o","l","o","g","y">>,
                           <<"/","n","e","w","s","/","b","u","s","i","n","e","s","s">>, <<"/","n","e","w","s","/","s","c","i","e","n","c","e","_","a","n","d","_","e","n","v","i","r","o","n","m","e","n","t">> }
      [] name = "cbsnews" -> { <<>>, <<"/","u","s">>, <<"/","w","o","r","l","d">>, <<"/","p","o","l","i","t","i","c","s">>, <<"/","m","o","n","e","y","w","a","t","c","h">> }
      [] name = "cnn" -> { <<>>, <<"/","p","o","l","i","t","i","c","s">>, <<"/","b","u","s","i","n","e","s","s">>, <<"/","w","o","r","l","d">>, <<"/","u","s">>,
                           <<"/","h","e","a","l","t","h">>, <<"/","e","n","t","e","r","t","a","i","n","m","e","n","t">> }
      [] name = "foxnews" -> { <<>>, <<"/","p","o","l","i","t","i","c","s">>, <<"/","u","s">>, <<"/","w","o","r","l","d">>, <<"/","m","e","d","i","a">> }
      [] name = "guardian" -> { <<"/","i","n","t","e","r","n","a","t","i","o","n","a","l">>, <<"/","w","o","r","l","d">>, <<"/","t","e","c","h","n","o","l","o","g","y">>,
                                <<"/","b","u","s","i","n","e","s","s">>, <<"/","p","o","l","i","t","i","c","s">>, <<"/","u","s","-","n","e","w","s">> }
      [] name = "nbcnews" -> { <<>>, <<"/","p","o","l","i","t","i","c","s">>, <<"/","w","o","r","l","d">>, <<"/","b","u","s","i","n","e","s","s">>,
                               <<"/","t","e","c","h","-","m","e","d","i","a">> }
      [] name = "nytimes" -> { <<>>, <<"/","s","e","c","t","i","o","n","/","w","o","r","l","d">>, <<"/","s","e","c","t","i","o","n","/","t","e","c","h","n","o","l","o","g","y">>,
                               <<"/","s","e","c","t","i","o","n","/","b","u","s","i","n","e","s","s">>, <<"/","s","e","c","t","i","o","n","/","p","o","l","i","t","i","c","s">> }
      [] name = "reuters" -> { <<>>, <<"/","w","o","r","l","d">>, <<"/","t","e","c","h","n","o","l","o","g","y">> }
      [] name = "washingtonpost" -> { <<>>, <<"/","p","o","l","i","t","i","c","s","/">>, <<"/","t","e","c","h","n","o","l","o","g","y","/">> }
      [] name = "wsj" -> { <<>>, <<"/","n","e","w","s","/","w","o","r","l","d">>, <<"/","n","e","w","s","/","t","e","c","h","n","o","l","o","g","y">> }
      [] OTHER -> {}

\* section roots every site has
RootPaths == { <<>>, <<"/">>, <<"/","n","e","w","s","/">>, <<"/","w","o","r","l","d">>, <<"/","P","o","l","i","t","i","c","s","/">> }

\* paths of stories, in the URL styles of the sites
StoryPaths ==
    { <<"/","2","0","2","6","/","0","1","/","2","9","/","u","s","/","s","t","o","r","m","-","h","i","t","s","-","c","o","a","s","t","/">>,
      <<"/","a","r","t","i","c","l","e","/","s","t","o","r","m","-","h","i","t","s","-","c","o","a","s","t">>,
      <<"/","p","o","l","i","t","i","c","s","/","s","e","n","a","t","e","-","p","a","s","s","e","s","-","t","h","e","-","b","u","d","g","e","t","-","b","i","l","l">>,
      <<"/","v","i","d","e","o","/","s","e","n","a","t","e","-","p","a","s","s","e","s","-","t","h","e","-","b","u","d","g","e","t","-","b","i","l","l">>,
      <<"/","n","e","w","s","/","w","o","r","l","d","-","1","2","3","4","5","6","7","8">>,
      <<"/","n","e","w","s","/","s","e","n","a","t","e","-","p","a","s","s","e","s","-","t","h","e","-","b","u","d","g","e","t","-","b","i","l","l">>,
      <<"/","w","o","r","l","d","/","2","0","2","6","/","j","a","n","/","2","7","/","s","t","o","r","m","-","h","i","t","s","-","c","o","a","s","t">>,
      <<"/","p","o","l","i","t","i","c","s","/","b","u","d","g","e","t","-","b","i","l","l","-","r","c","n","a","1","2","3","4","5">>,
      <<"/","h","u","b","/","s","t","o","r","m","s">>,
      <<"/","a","b","o","u","t">> }

\* one-segment paths under /news, and the pages that are never stories
SlugPaths ==
    { <<"/","n","e","w","s">>, <<"/","n","e","w","s","/","s","h","o","r","t","-","s","l","u","g","/">>, <<"/","n","e","w","s","/","s","o","m","e","-","a","r","t","i","c","l","e">>, <<"/","n","e","w","s","/","x">>,
      <<"/","N","e","w","s","/","S","e","n","a","t","e","-","P","a","s","s","e","s","-","T","h","e","-","B","u","d","g","e","t","-","B","i","l","l","/">>, <<"/","l","i","v","e","/","s","t","r","e","a","m","/">>,
      <<"/","e","s","s","e","n","t","i","a","l","s","/","b","e","s","t","-","p","r","o","d","u","c","t","s","/">>, <<"/","v","i","d","e","o","/","s","o","m","e","-","v","i","d","e","o","/">> }

site_urls(name) ==
    { site_root(name) \o path :
        path \in start_paths(name) \cup RootPaths \cup StoryPaths \cup SlugPaths }

\* the markers of a page: Content-Type, og:type, <article>, article-body
\* classes, body/@data-page-type, body/@class
SiteEnvelopes ==
    { [content_type |-> <<"t","e","x","t","/","h","t","m","l">>, og_type |-> "none", has_article_tag |-> FALSE,
       has_article_indicator |-> FALSE, data_page_type |-> <<>>, body_class |-> <<>>],
      [content_type |-> <<"t","e","x","t","/","h","t","m","l">>, og_type |-> "article", has_article_tag |-> FALSE,
       has_article_indicator |-> FALSE, data_page_type |-> <<>>, body_class |-> <<>>],
      [content_type |-> <<"t","e","x","t","/","h","t","m","l">>, og_type |-> "website", has_article_tag |-> TRUE,
       has_article_indicator |-> FALSE, data_page_type |-> <<>>, body_class |-> <<>>],
      [content_type |-> <<"t","e","x","t","/","h","t","m","l">>, og_type |-> "none", has_article_tag |-> FALSE,
       has_article_indicator |-> TRUE, data_page_type |-> <<>>, body_class |-> <<>>],
      [content_type |-> <<"t","e","x","t","/","h","t","m","l">>, og_type |-> "none", has_article_tag |-> FALSE,
       has_article_indicator |-> FALSE, data_page_type |-> <<"a","r","t","i","c","l","e","-","l","e","a","f">>,
       body_class |-> <<>>],
      [content_type |-> <<"A","p","p","l","i","c","a","t","i","o","n","/","J","S","O","N",";"," ","c","h","a","r","s","e","t","=","u","t","f","-","8">>, og_type |-> "article",
       has_article_tag |-> TRUE, has_article_indicator |-> TRUE,
       data_page_type |-> <<>>, body_class |-> <<>>],
      [content_type |-> <<"t","e","x","t","/","h","t","m","l">>, og_type |-> "none", has_article_tag |-> FALSE,
       has_article_indicator |-> FALSE, data_page_type |-> <<"s","e","c","t","i","o","n">>,
       body_class |-> <<"f","n"," ","a","r","t","i","c","l","e","-","s","i","n","g","l","e"," ","d","a","r","k">>] }

site_page(url, e) == [url |-> url] @@ e

NoSitePage == site_page(<<>>, CHOOSE e \in SiteEnvelopes : e.og_type = "website")

(***************************************************************************)
(* The date strings given to the two parsers: a calendar date, with or     *)
(* without a time of day and a UTC offset, written as ISO 8601; month     *)
(* names; and text that is no date.                                        *)
(***************************************************************************)
StampDates == { <<2026, 1, 29>>, <<2026, 1, 1>>, <<1, 1, 1>>, <<9999, 12, 31>>,
                <<2024, 2, 29>>, <<2026, 2, 30>> }

StampClocks == { <<12, 0, 5>>, <<0, 30, 0>>, <<23, 45, 0>> }

StampSeparators == { "T", " " }

\* a suffix and the offset (in minutes) it stands for
StampZones ==
    { [suffix |-> <<>>, aware |-> FALSE, utcoffset |-> 0],
      [suffix |-> <<"Z">>, aware |-> TRUE, utcoffset |-> 0],
      [suffix |-> <<"+","0","0",":","0","0">>, aware |-> TRUE, utcoffset |-> 0],
      [suffix |-> <<"+","0","1",":","0","0">>, aware |-> TRUE, utcoffset |-> 60],
      [suffix |-> <<"-","0","5",":","3","0">>, aware |-> TRUE, utcoffset |-> 0 - 330] }

four_digits(n) ==
    <<DIGIT_CHARS[(n \div 1000) + 1], DIGIT_CHARS[((n \div 100) % 10) + 1],
      DIGIT_CHARS[((n \div 10) % 10) + 1], DIGIT_CHARS[(n % 10) + 1]>>

iso_date(d) == four_digits(d[1]) \o <<"-">> \o two_digits(d[2]) \o <<"-">> \o two_digits(d[3])

iso_clock(c) == two_digits(c[1]) \o <<":">> \o two_digits(c[2]) \o <<":">> \o two_digits(c[3])

\* the date exists in the calendar
is_date(d) == d[2] \in 1..12 /\ d[3] \in 1..days_in_month(d[1], d[2])

\* the moment the string names, as UTC wall-clock fields; <<>> when the
\* string names none or the moment is outside the years 1..9999
moment(d, c, z) ==
    IF ~is_date(d) THEN <<>>
    ELSE IF ~in_range(to_utc([year |-> d[1], month |-> d[2], day |-> d[3],
                              hour |-> c[1], minute |-> c[2], second |-> c[3],
                              aware |-> z.aware, utcoffset |-> z.utcoffset]))
    THEN <<>>
    ELSE << to_utc([year |-> d[1], month |-> d[2], day |-> d[3],
                    hour |-> c[1], minute |-> c[2], second |-> c[3],
                    aware |-> z.aware, utcoffset |-> z.utcoffset]) >>

NoZone == [suffix |-> <<>>, aware |-> FALSE, utcoffset |-> 0]

\* kind: "date" (date only), "local" (no offset), "offset", "words" (month
\* names), "junk"
date_only(d) ==
    [kind |-> "date", chars |-> iso_date(d), utc |-> moment(d, <<0, 0, 0>>, NoZone)]

date_time(d, sep, c, z) ==
    [kind |-> IF z.aware THEN "offset" ELSE "local",
     chars |-> iso_date(d) \o <<sep>> \o iso_clock(c) \o z.suffix,
     utc |-> moment(d, c, z)]

worded(s, d) == [kind |-> "words", chars |-> s, utc |-> moment(d, <<0, 0, 0>>, NoZone)]

junk(s) == [kind |-> "junk", chars |-> s, utc |-> <<>>]

Stamps ==
    { date_only(d) : d \in StampDates }
    \cup { date_time(d, sep, c, z) :
             d \in StampDates, sep \in StampSeparators, c \in StampClocks, z \in StampZones }
    \cup { worded(<<"J","a","n","u","a","r","y"," ","2","9",","," ","2","0","2","6">>, <<2026, 1, 29>>),
           worded(<<"j","a","n"," ","2","9",","," ","2","0","2","6">>, <<2026, 1, 29>>),
           worded(<<"2","9"," ","M","a","y"," ","2","0","2","6">>, <<2026, 5, 29>>),
           worded(<<"2","9"," ","F","E","B","R","U","A","R","Y"," ","2","0","2","6">>, <<2026, 2, 29>>),
           worded(<<" "," ","2","0","2","6","-","0","1","-","2","9"," "," ">>, <<2026, 1, 29>>) }
    \cup { junk(<<"y","e","s","t","e","r","d","a","y">>), junk(<<" "," "," ">>), junk(<<"2","0","2","6","-","1","3","-","0","1">>), junk(<<"2","0","2","6","-","0","1">>),
           junk(<<"2","9","/","0","1","/","2","0","2","6">>), junk(<<"2","0","2","6","-","0","1","-","2","9","T","2","5",":","0","0",":","0","0">>),
           junk(<<"M","a","y","d","a","y"," ","1",","," ","2","0","2","6">>) }

NoStamp == [kind |-> "none", chars |-> <<>>, utc |-> <<>>]

(***************************************************************************)
(* The items a crawl yields and the sink classes SINK_CLASS may name.      *)
(***************************************************************************)
MaxItems == 3

PipelineItems == { "first", "second", "third" }

SinkClasses ==
    [accepts : {"kwargs", "positional", "no arguments", "nothing"},
     has_open : BOOLEAN, open_raises : BOOLEAN, close_raises : BOOLEAN,
     failing : SUBSET PipelineItems]

(***************************************************************************)
(* The items sent to a JsonlSink and the number of calls made on it.       *)
(***************************************************************************)
MaxCalls == 5

JsonlItems ==
    { [title |-> <<"a">>],
      [title |-> <<"b", QUOTE, "c">>],
      [title |-> <<"d", NEWLINE, "e", BACKSLASH, "f">>] }

NoJsonlCall == [op |-> "none", was_open |-> FALSE, before |-> NoFile]
(***************************************************************************)
(* Article pages whose download or parse raises.                           *)
(***************************************************************************)
FailedUrls ==
    { <<"h","t","t","p","s",":","/","/","e","x","a","m","p","l","e",".","c","o","m","/","n","e","w","s","/","s","t","o","r","y","-","o","n","e">>,
      <<"h","t","t","p","s",":","/","/","e","x","a","m","p","l","e",".","c","o","m","/","n","e","w","s","/","s","t","o","r","y","-","t","w","o">>,
      <<"h","t","t","p","s",":","/","/","e","x","a","m","p","l","e",".","c","o","m","/","2","0","2","6","/","0","1","/","2","9","/","x">>,
      <<"h","t","t","p","s",":","/","/","e","x","a","m","p","l","e",".","c","o","m","/","a","r","t","i","c","l","e","/","a">>,
      <<"h","t","t","p","s",":","/","/","E","x","a","m","p","l","e",".","c","o","m","/","a","r","t","i","c","l","e","/","a","?","u","t","m","_","s","o","u","r","c","e","=","x","#","f">>,
      <<"h","t","t","p","s",":","/","/","e","x","a","m","p","l","e",".","c","o","m","/","a","r","t","i","c","l","e","/","b","?","i","d","=","7">> }

\* the page's URL and the message of the exception newspaper3k raises on it
FailedPages == [url : FailedUrls, error : Errors]

NoFailedPage == [url |-> <<>>, error |-> <<>>]

\* the response of a failing page: an HTML page marked as an article
failing_response(p) ==
    fetched(p.url, [content_type |-> <<"t","e","x","t","/","h","t","m","l">>, og_type |-> "article",
                    has_article_tag |-> TRUE, has_article_indicator |-> TRUE])

\* what newspaper3k makes of a failing page
failing_article(p) ==
    [raises |-> TRUE, error |-> p.error, title |-> <<>>, text |-> <<>>,
     publish_date |-> Missing, summary |-> <<>>, authors |-> <<>>]
(***************************************************************************)
(* Each specification below drives one part of the program; the variables  *)
(* of the other parts stay at these values.                                *)
(***************************************************************************)
CanonIdle ==
    /\ u = NoUrl /\ v = NoUrl /\ cpc = "idle"
    /\ canonU = <<>> /\ canonV = <<>> /\ recanonU = <<>>

SpiderIdle ==
    /\ spider = CHOOSE s \in Spiders : TRUE
    /\ resp = fetched(<<>>, CHOOSE e \in Envelopes : e.og_type = "website")
    /\ art = NoArticle /\ markup = NoMarkup /\ hrefs = <<>>
    /\ items = <<>> /\ requests = <<>> /\ spc = "idle"

ExtractIdle ==
    /\ site = "none" /\ html = NoPage /\ given = <<>>
    /\ extracted = NoResult /\ xpc = "idle"


FingerprintIdle ==
    /\ callA = NoCall /\ callB = NoCall
    /\ printA = <<>> /\ printB = <<>> /\ fpc = "idle"

SiteIdle ==
    /\ crawler = "none" /\ landed = NoSitePage
    /\ urlVerdict = FALSE /\ baseUrlVerdict = FALSE /\ pageVerdict = FALSE
    /\ stc = "idle"

DateIdle ==
    /\ stamp = NoStamp /\ metaParsed = <<>> /\ isoParsed = <<>> /\ dpc = "idle"

PipelineIdle ==
    /\ pipeline = [sink |-> NoSink] /\ deliveries = <<>> /\ sinkLog = <<>>
    /\ logged = 0 /\ ppc = "idle"

JsonlIdle ==
    /\ _file = <<>> /\ output = NoFile /\ window = <<>>
    /\ lastCall = NoJsonlCall /\ dropped = 0 /\ calls = 0

FailureIdle ==
    /\ pageA = NoFailedPage /\ pageB = NoFailedPage
    /\ failedA = <<>> /\ failedB = <<>> /\ flc = "idle"

LaterIdle == FingerprintIdle /\ SiteIdle /\ DateIdle /\ PipelineIdle /\ JsonlIdle /\ FailureIdle
(***************************************************************************)
(* The canonicalizer applied to URLs and to pairs of related URLs.          *)
(***************************************************************************)
InitCanon ==
    /\ u \in [scheme : Schemes, netloc : Netlocs, path : Paths,
              query : Queries, frag : Fragments]
    /\ v = NoUrl
    /\ cpc = "input"
    /\ canonU = <<>>
    /\ canonV = <<>>
    /\ recanonU = <<>>
    /\ SpiderIdle /\ ExtractIdle /\ LaterIdle

\* canonical = canonicalize_url_clean(url)
Canonicalize ==
    /\ cpc = "input"
    /\ canonU' = canonicalize_url_clean(render(u))
    /\ cpc' = "canon"
    /\ UNCHANGED <<u, v, canonV, recanonU>>
    /\ UNCHANGED <<spiderVars, extractVars, laterVars>>

\* the canonical form is canonicalized again
Recanonicalize ==
    /\ cpc = "canon"
    /\ recanonU' = canonicalize_url_clean(canonU)
    /\ cpc' = "recanon"
    /\ UNCHANGED <<u, v, canonU, canonV>>
    /\ UNCHANGED <<spiderVars, extractVars, laterVars>>

\* both members of a pair of URLs are canonicalized
CanonicalizePair(w, tag) ==
    /\ cpc = "input"
    /\ v' = w
    /\ canonU' = canonicalize_url_clean(render(u))
    /\ canonV' = canonicalize_url_clean(render(w))
    /\ cpc' = tag
    /\ UNCHANGED <<u, recanonU>>
    /\ UNCHANGED <<spiderVars, extractVars, laterVars>>

\* the same URL with one more query parameter, whose key is a tracking key
AddTrackingParam ==
    \E k \in TRACKING_PARAMS, val \in ParamValues :
        \E key \in CaseVariants(k) :
            CanonicalizePair([u EXCEPT !.query = Append(@, key \o <<"=">> \o val)],
                             "tracked")

\* the same URL with one more slash at the end of its path
AddTrailingSlash ==
    CanonicalizePair([u EXCEPT !.path = @ \o <<"/">>], "slashed")

\* the same URL with another fragment
ChangeFragment ==
    \E f \in Fragments :
        /\ f # u.frag
        /\ CanonicalizePair([u EXCEPT !.frag = f], "fragment")

\* the same URL with its query parameters in the opposite order
ReorderQuery ==
    /\ Reverse(u.query) # u.query
    /\ CanonicalizePair([u EXCEPT !.query = Reverse(@)], "reordered")

NextCanon ==
    \/ Canonicalize
    \/ Recanonicalize
    \/ AddTrackingParam
    \/ AddTrailingSlash
    \/ ChangeFragment
    \/ ReorderQuery

SpecCanon == InitCanon /\ [][NextCanon]_vars

(***************************************************************************)
(* The spider: pages are fetched and handed to NewsSpider.parse.           *)
(***************************************************************************)
Init ==
    /\ spider \in Spiders
    /\ resp \in Responses
    /\ art = NoArticle /\ markup = NoMarkup /\ hrefs = <<>>
    /\ items = <<>> /\ requests = <<>>
    /\ spc = "fetched"
    /\ CanonIdle /\ ExtractIdle /\ LaterIdle

\* the page content that parse read and what it yielded
Yield(a, m, links, out) ==
    /\ art' = a /\ markup' = m /\ hrefs' = links
    /\ items' = out.items
    /\ requests' = out.requests
    /\ spc' = IF out.raised THEN "raised" ELSE out.kind

\* NewsSpider.parse(response), on a page that is an article and on one that
\* is not
Parse ==
    /\ spc = "fetched"
    /\ \/ /\ is_article_page(resp)
          /\ \E c \in Contents, links \in ArticlePageLinks, now \in Clock :
                Yield(c.article, c.markup, links,
                      parse(spider, resp, c.article, c.markup, links, now))
       \/ /\ ~is_article_page(resp)
          /\ \E links \in HrefLists, now \in Clock :
                Yield(NoArticle, NoMarkup, links,
                      parse(spider, resp, NoArticle, NoMarkup, links, now))
    /\ UNCHANGED <<spider, resp>>
    /\ UNCHANGED <<canonVars, extractVars, laterVars>>

\* the engine fetches a followed request; its callback is parse
Fetch ==
    /\ spc = "discovery"
    /\ \E i \in 1..Len(requests), e \in Envelopes :
          resp' = fetched(requests[i][1], e)
    /\ art' = NoArticle /\ markup' = NoMarkup /\ hrefs' = <<>>
    /\ items' = <<>> /\ requests' = <<>>
    /\ spc' = "fetched"
    /\ UNCHANGED spider
    /\ UNCHANGED <<canonVars, extractVars, laterVars>>

Next ==
    \/ Parse
    \/ Fetch

Spec == Init /\ [][Next]_vars


(***************************************************************************)
(* SpecExtract: an extractor is given a response and extract() returns or  *)
(* raises; an ExtractedArticle is constructed directly.                    *)
(***************************************************************************)
InitExtract == CanonIdle /\ SpiderIdle /\ ExtractIdle /\ LaterIdle

\* a response arrives for the extractor `name`
Respond ==
    /\ xpc = "idle"
    /\ \E name \in Extractors, response \in Pages :
        /\ site' = name
        /\ html' = response
    /\ xpc' = "fetched"
    /\ UNCHANGED <<given, extracted>>
    /\ UNCHANGED <<canonVars, spiderVars, laterVars>>

\* extractor.extract(response)
Extract ==
    /\ xpc = "fetched"
    /\ \E outcome \in {extract(site, html)} :
        /\ extracted' = outcome
        /\ xpc' = IF outcome.raised THEN "raised" ELSE "returned"
    /\ UNCHANGED <<site, html, given>>
    /\ UNCHANGED <<canonVars, spiderVars, laterVars>>

\* ExtractedArticle(..., confidence=c)
Construct ==
    /\ xpc = "idle"
    /\ \E confidence \in Confidences :
        \E outcome \in {ExtractedArticle(constructed_with(confidence))} :
            /\ given' = <<constructed_with(confidence)>>
            /\ extracted' = outcome
            /\ xpc' = IF outcome.raised THEN "rejected" ELSE "constructed"
    /\ UNCHANGED <<site, html>>
    /\ UNCHANGED <<canonVars, spiderVars, laterVars>>

NextExtract == Respond \/ Extract \/ Construct

SpecExtract == InitExtract /\ [][NextExtract]_vars

(***************************************************************************)
(* SpecFingerprint: _compute_fingerprint is called twice, with any two      *)
(* argument lists.                                                          *)
(***************************************************************************)
InitFingerprint ==
    /\ callA \in PrintCalls
    /\ callB = NoCall
    /\ printA = <<>> /\ printB = <<>>
    /\ fpc = "first"
    /\ CanonIdle /\ SpiderIdle /\ ExtractIdle
    /\ SiteIdle /\ DateIdle /\ PipelineIdle /\ JsonlIdle /\ FailureIdle

\* self._compute_fingerprint(title, published_at, source, text)
FingerprintFirst ==
    /\ fpc = "first"
    /\ printA' = _compute_fingerprint(callA.title, callA.published_at,
                                      callA.source, callA.text)
    /\ fpc' = "second"
    /\ UNCHANGED <<callA, callB, printB>>
    /\ UNCHANGED <<canonVars, spiderVars, extractVars, siteVars, dateVars, pipelineVars, jsonlVars, failureVars>>

\* a second call, with arguments of its own
FingerprintSecond ==
    /\ fpc = "second"
    /\ \E call \in PrintCalls :
        /\ callB' = call
        /\ printB' = _compute_fingerprint(call.title, call.published_at,
                                          call.source, call.text)
    /\ fpc' = "done"
    /\ UNCHANGED <<callA, printA>>
    /\ UNCHANGED <<canonVars, spiderVars, extractVars, siteVars, dateVars, pipelineVars, jsonlVars, failureVars>>

NextFingerprint == FingerprintFirst \/ FingerprintSecond

SpecFingerprint == InitFingerprint /\ [][NextFingerprint]_vars

(***************************************************************************)
(* SpecSites: a site spider is given a page of its site and classifies the *)
(* page's URL and the page.                                                *)
(***************************************************************************)
InitSites ==
    /\ crawler \in SiteSpiders
    /\ \E url \in site_urls(crawler), e \in SiteEnvelopes : landed = site_page(url, e)
    /\ urlVerdict = FALSE /\ baseUrlVerdict = FALSE /\ pageVerdict = FALSE
    /\ stc = "fetched"
    /\ CanonIdle /\ SpiderIdle /\ ExtractIdle
    /\ FingerprintIdle /\ DateIdle /\ PipelineIdle /\ JsonlIdle /\ FailureIdle

\* spider.is_article_url(url), next to NewsSpider.is_article_url(url)
ClassifyUrl ==
    /\ stc = "fetched"
    /\ urlVerdict' = spider_is_article_url(crawler, landed.url)
    /\ baseUrlVerdict' = is_article_url(landed.url)
    /\ stc' = "url"
    /\ UNCHANGED <<crawler, landed, pageVerdict>>
    /\ UNCHANGED <<canonVars, spiderVars, extractVars, fingerprintVars, dateVars, pipelineVars, jsonlVars, failureVars>>

\* spider.is_article_page(response)
ClassifyPage ==
    /\ stc = "url"
    /\ pageVerdict' = spider_is_article_page(crawler, landed)
    /\ stc' = "page"
    /\ UNCHANGED <<crawler, landed, urlVerdict, baseUrlVerdict>>
    /\ UNCHANGED <<canonVars, spiderVars, extractVars, fingerprintVars, dateVars, pipelineVars, jsonlVars, failureVars>>

NextSites == ClassifyUrl \/ ClassifyPage

SpecSites == InitSites /\ [][NextSites]_vars

(***************************************************************************)
(* SpecDates: one date string is given to parse_datetime_from_meta and to  *)
(* parse_iso8601_date.                                                     *)
(***************************************************************************)
InitDates ==
    /\ stamp \in Stamps
    /\ metaParsed = <<>> /\ isoParsed = <<>>
    /\ dpc = "given"
    /\ CanonIdle /\ SpiderIdle /\ ExtractIdle
    /\ FingerprintIdle /\ SiteIdle /\ PipelineIdle /\ JsonlIdle /\ FailureIdle

\* parse_datetime_from_meta(date_str)
ParseMeta ==
    /\ dpc \in {"given", "iso"}
    /\ metaParsed' = << parse_datetime_from_meta(py_str(text_of(stamp.chars))) >>
    /\ dpc' = IF dpc = "given" THEN "meta" ELSE "both"
    /\ UNCHANGED <<stamp, isoParsed>>
    /\ UNCHANGED <<canonVars, spiderVars, extractVars, fingerprintVars, siteVars, pipelineVars, jsonlVars, failureVars>>

\* parse_iso8601_date(date_input) with a string
ParseIso ==
    /\ dpc \in {"given", "meta"}
    /\ isoParsed' = << parse_iso8601_date_str(text_of(stamp.chars)) >>
    /\ dpc' = IF dpc = "given" THEN "iso" ELSE "both"
    /\ UNCHANGED <<stamp, metaParsed>>
    /\ UNCHANGED <<canonVars, spiderVars, extractVars, fingerprintVars, siteVars, pipelineVars, jsonlVars, failureVars>>

NextDates == ParseMeta \/ ParseIso

SpecDates == InitDates /\ [][NextDates]_vars
(***************************************************************************)
(* SpecFailures: the spider parses two article pages on which              *)
(* article.download / article.parse raises.                                *)
(***************************************************************************)
InitFailures ==
    /\ pageA \in FailedPages
    /\ pageB = NoFailedPage
    /\ failedA = <<>> /\ failedB = <<>>
    /\ flc = "first"
    /\ CanonIdle /\ SpiderIdle /\ ExtractIdle
    /\ FingerprintIdle /\ SiteIdle /\ DateIdle /\ PipelineIdle /\ JsonlIdle

\* NewsSpider.parse(response) on the first page
FailFirst ==
    /\ flc = "first"
    /\ \E now \in Clock :
          failedA' = parse(spider, failing_response(pageA), failing_article(pageA),
                           NoMarkup, <<>>, now).items
    /\ flc' = "second"
    /\ UNCHANGED <<pageA, pageB, failedB>>
    /\ UNCHANGED <<canonVars, spiderVars, extractVars, fingerprintVars, siteVars, dateVars, pipelineVars, jsonlVars>>

\* NewsSpider.parse(response) on a second page
FailSecond ==
    /\ flc = "second"
    /\ \E p \in FailedPages, now \in Clock :
          /\ pageB' = p
          /\ failedB' = parse(spider, failing_response(p), failing_article(p),
                              NoMarkup, <<>>, now).items
    /\ flc' = "done"
    /\ UNCHANGED <<pageA, failedA>>
    /\ UNCHANGED <<canonVars, spiderVars, extractVars, fingerprintVars, siteVars, dateVars, pipelineVars, jsonlVars>>

NextFailures == FailFirst \/ FailSecond

SpecFailures == InitFailures /\ [][NextFailures]_vars


(***************************************************************************)
(* SpecPipeline: Scrapy opens the pipeline, hands it the items of the      *)
(* crawl one by one, and closes it.                                        *)
(***************************************************************************)
InitPipeline ==
    /\ pipeline = [sink |-> NoSink]
    /\ deliveries = <<>> /\ sinkLog = <<>> /\ logged = 0
    /\ ppc = "created"
    /\ CanonIdle /\ SpiderIdle /\ ExtractIdle
    /\ FingerprintIdle /\ SiteIdle /\ DateIdle /\ JsonlIdle /\ FailureIdle

\* pipeline.open_spider(spider)
OpenSpider ==
    /\ ppc = "created"
    /\ \E SinkClass \in SinkClasses :
        \E opened \in {open_spider(pipeline, SinkClass)} :
            /\ pipeline' = opened.self
            /\ logged' = logged + opened.logged
            /\ ppc' = IF opened.raised THEN "failed" ELSE "open"
    /\ UNCHANGED <<deliveries, sinkLog>>
    /\ UNCHANGED <<canonVars, spiderVars, extractVars, fingerprintVars, siteVars, dateVars, jsonlVars, failureVars>>

\* pipeline.process_item(item, spider)
ProcessItem ==
    /\ ppc \in {"open", "failed"}
    /\ Len(deliveries) < MaxItems
    /\ \E item \in PipelineItems :
        \E done \in {process_item(pipeline, item)} :
            /\ deliveries' = Append(deliveries,
                                    [item |-> item, ready |-> ppc = "open",
                                     sends |-> done.sends, outcome |-> done.outcome])
            /\ sinkLog' = sinkLog \o done.sends
            /\ logged' = logged + done.logged
    /\ UNCHANGED <<pipeline, ppc>>
    /\ UNCHANGED <<canonVars, spiderVars, extractVars, fingerprintVars, siteVars, dateVars, jsonlVars, failureVars>>

\* pipeline.close_spider(spider): the sink is closed, self.sink stays
CloseSpider ==
    /\ ppc = "open"
    /\ ppc' = "closed"
    /\ logged' = logged + close_spider(pipeline)
    /\ UNCHANGED <<pipeline, deliveries, sinkLog>>
    /\ UNCHANGED <<canonVars, spiderVars, extractVars, fingerprintVars, siteVars, dateVars, jsonlVars, failureVars>>

NextPipeline == OpenSpider \/ ProcessItem \/ CloseSpider

SpecPipeline == InitPipeline /\ [][NextPipeline]_vars

(***************************************************************************)
(* SpecJsonl: open, send and close are called on one JsonlSink in any      *)
(* order, always with the same spider.                                     *)
(***************************************************************************)
InitJsonl ==
    /\ _file = <<>> /\ output = NoFile /\ window = <<>>
    /\ lastCall = NoJsonlCall /\ dropped = 0 /\ calls = 0
    /\ CanonIdle /\ SpiderIdle /\ ExtractIdle
    /\ FingerprintIdle /\ SiteIdle /\ DateIdle /\ PipelineIdle /\ FailureIdle

\* sink.open(spider)
JsonlOpen ==
    /\ calls < MaxCalls
    /\ output' = open_file(_file)
    /\ _file' = << <<>> >>
    /\ window' = IF _file = <<>> THEN <<>> ELSE window
    /\ dropped' = IF _file = <<>> THEN dropped ELSE dropped + 1
    /\ lastCall' = [op |-> "open", was_open |-> _file # <<>>,
                    before |-> output]
    /\ calls' = calls + 1
    /\ UNCHANGED <<canonVars, spiderVars, extractVars, fingerprintVars, siteVars, dateVars, pipelineVars, failureVars>>

\* sink.send(item)
JsonlSend ==
    /\ calls < MaxCalls
    /\ \E item \in JsonlItems :
        /\ _file' = JsonlSink_send(_file, item)
        /\ window' = IF _file = <<>> THEN window ELSE Append(window, item)
    /\ lastCall' = [op |-> "send", was_open |-> _file # <<>>,
                    before |-> output]
    /\ calls' = calls + 1
    /\ UNCHANGED <<output, dropped>>
    /\ UNCHANGED <<canonVars, spiderVars, extractVars, fingerprintVars, siteVars, dateVars, pipelineVars, failureVars>>

\* sink.close()
JsonlClose ==
    /\ calls < MaxCalls
    /\ output' = JsonlSink_close(_file, output)
    /\ _file' = <<>>
    /\ lastCall' = [op |-> "close", was_open |-> _file # <<>>,
                    before |-> output]
    /\ calls' = calls + 1
    /\ UNCHANGED <<window, dropped>>
    /\ UNCHANGED <<canonVars, spiderVars, extractVars, fingerprintVars, siteVars, dateVars, pipelineVars, failureVars>>

NextJsonl == JsonlOpen \/ JsonlSend \/ JsonlClose

SpecJsonl == InitJsonl /\ [][NextJsonl]_vars
(***************************************************************************)
(* Canonicalizer claims.                                                   *)
(***************************************************************************)
\* C8: canonicalize_url_clean is idempotent: canonicalizing a canonical form
\* again gives the same text.
C8_Idempotent == cpc = "recanon" => recanonU = canonU

\* C9: adding a query parameter whose key is in the tracking deny-set, in any
\* letter case, changes neither the canonical form nor the url_hash.
C9_TrackingInvariant ==
    cpc = "tracked" => canonV = canonU /\ sha256(canonV) = sha256(canonU)

\* C10: two URLs that differ only by a trailing slash on the path, or only by
\* the fragment, have the same canonical form and the same url_hash.
C10_SlashFragmentInvariant ==
    cpc \in {"slashed", "fragment"} =>
        canonV = canonU /\ sha256(canonV) = sha256(canonU)

\* C25: two URLs that differ only in the order of their query parameters
\* have the same canonical form and the same url_hash.
C25_OrderInvariant ==
    cpc = "reordered" => canonV = canonU /\ sha256(canonV) = sha256(canonU)
(***************************************************************************)
(* Spider claims.                                                          *)
(***************************************************************************)
\* parse has run on the response and classified it as an article
ParsedAsArticle == spc \in {"article", "discovery", "raised"} /\ is_article_page(resp)

\* parse has run on the response and classified it as a discovery page
ParsedAsDiscovery == spc \in {"article", "discovery", "raised"} /\ ~is_article_page(resp)

\* the fields the record must always carry
GuaranteedFields == {"url", "source", "scraped_at", "parse_ok", "url_hash", "fingerprint"}

\* C1: for every page that parse classifies as an article, process_article
\* returns a record and parse yields it, on the parse-exception path, the
\* validation-failure path and the success path; the record has url, source,
\* scraped_at, parse_ok, url_hash and fingerprint set, and parse_ok is false
\* on the two failure paths.
C1_RecordAlwaysEmitted ==
    ParsedAsArticle =>
        /\ Len(items) = 1
        /\ GuaranteedFields \subseteq DOMAIN items[1]
        /\ items[1].url = resp.url
        /\ items[1].source = spider.domain
        /\ items[1].scraped_at # None
        /\ items[1].url_hash = sha256(canonicalize_url_clean(resp.url))
        /\ items[1].fingerprint[1] = "sha256"
        /\ (art.raises \/ ~_validate_article_content(art)) => items[1].parse_ok = FALSE

\* the number of links of a page that pass the three filters
RECURSIVE accepted_links(_, _, _)
accepted_links(links, base, allowed_domains) ==
    IF Len(links) = 0 THEN 0
    ELSE (IF accepts(urljoin(base, links[1][1]), allowed_domains) THEN links[1][2] ELSE 0)
         + accepted_links(Tail(links), base, allowed_domains)

\* C2: from a discovery page with any number and order of links, parse yields
\* at most MAX_FOLLOW_PER_PAGE follow requests, and the links the filters
\* reject do not use up the cap: the accepted links are followed up to the cap.
C2_FollowCap ==
    ParsedAsDiscovery =>
        /\ count_requests(requests) <= MAX_FOLLOW_PER_PAGE
        /\ spc = "discovery" =>
              count_requests(requests) =
                  IF accepted_links(hrefs, resp.url, spider.allowed_domains)
                        < MAX_FOLLOW_PER_PAGE
                  THEN accepted_links(hrefs, resp.url, spider.allowed_domains)
                  ELSE MAX_FOLLOW_PER_PAGE

\* a discovery page that starts with more rejected links than the cap and has
\* more accepted links than the cap: exactly the cap's worth is followed
C2_Witness ==
    /\ spc = "discovery"
    /\ Len(hrefs) >= 2
    /\ hrefs[1][2] > MAX_FOLLOW_PER_PAGE
    /\ ~accepts(urljoin(resp.url, hrefs[1][1]), spider.allowed_domains)
    /\ accepted_links(hrefs, resp.url, spider.allowed_domains) > MAX_FOLLOW_PER_PAGE
    /\ count_requests(requests) = MAX_FOLLOW_PER_PAGE

\* C3: parse yields outputs of one kind only: an article page gives at most
\* one record and no follow request, a discovery page gives no record.
C3_OneKindOfOutput ==
    /\ ParsedAsArticle => Len(items) <= 1 /\ requests = <<>>
    /\ ParsedAsDiscovery => items = <<>>

\* an article page that holds a link the filters accept: the record is
\* yielded, the link is not followed
C3_Witness ==
    /\ spc = "article"
    /\ Len(items) = 1
    /\ requests = <<>>
    /\ Len(hrefs) > 0
    /\ accepts(urljoin(resp.url, hrefs[1][1]), spider.allowed_domains)


\* C16: every record that process_article returns with parse_ok = true has a
\* text that is not None and holds at least MIN_ARTICLE_TEXT_LENGTH
\* whitespace-normalized characters.
C16_QualityGate ==
    \A i \in 1..Len(items) :
        items[i].parse_ok = TRUE =>
            /\ items[i].text # None
            /\ text_len(items[i].text) >= MIN_ARTICLE_TEXT_LENGTH

\* the URL is absolute http(s), holds no feed marker, its host is an allowed
\* domain or a subdomain of one, and is_article_url accepts it
followable(url, allowed_domains) ==
    /\ StartsWith(url, <<"h","t","t","p",":","/","/">>) \/ StartsWith(url, <<"h","t","t","p","s",":","/","/">>)
    /\ \A marker \in { <<"r","s","s">>, <<"f","e","e","d">>, <<"s","i","t","e","m","a","p">>, <<"a","t","o","m">> } : ~Contains(Lower(url), marker)
    /\ \E i \in 1..Len(allowed_domains) :
            \/ hostname(urlparse(url).netloc) = allowed_domains[i]
            \/ EndsWith(hostname(urlparse(url).netloc), <<".">> \o allowed_domains[i])
    /\ is_article_url(url)

mostly_short(lines) == short_lines(lines) * 10 > 7 * Len(lines)

\* C24: whatever the number of lines of a parsed article's text, if more than
\* 70% of them are shorter than 30 characters the record is emitted with
\* parse_ok = false.
C24_NavJunkRejected ==
    ( /\ spc = "article" /\ ~art.raises
      /\ mostly_short(split_lines(<<>>, <<>>, strip(art.text))) )
        => (Len(items) = 1 /\ items[1].parse_ok = FALSE)

\* the whitespace-normalized summary before truncation: article.summary, or
\* the first five sentences of the text when it is shorter than 50 characters
normalized_summary(article) ==
    IF strip(article.summary) = <<>> \/ text_len(strip(article.summary)) < 50
    THEN normalize_whitespace(
             join_spaces(first_n(split_sentences(<<>>, <<>>, strip(article.text)), 5)))
    ELSE normalize_whitespace(strip(article.summary))

\* C28: the summary of every record is None or at most summary_max_chars
\* characters long, the ellipsis included; and summary_truncated is true
\* exactly when the whitespace-normalized summary was longer than
\* summary_max_chars.
C28_SummaryBounded ==
    \A i \in 1..Len(items) :
        /\ items[i].summary = None \/ text_len(items[i].summary) <= items[i].summary_max_chars
        /\ items[i].parse_ok =>
              (items[i].summary_truncated <=>
                   text_len(normalized_summary(art)) > items[i].summary_max_chars)

\* the same with the bound on the length left out: the flag alone
SummaryFlagExact ==
    \A i \in 1..Len(items) :
        items[i].parse_ok =>
            (items[i].summary_truncated <=>
                 text_len(normalized_summary(art)) > items[i].summary_max_chars)

\* C29: on every path of process_article the record has parse_ok true if and
\* only if its parse_error is None.
C29_FlagsConsistent ==
    \A i \in 1..Len(items) : items[i].parse_ok <=> (items[i].parse_error = None)

\* an article that parsed but failed the content validation: the record
\* carries the validation error and parse_ok = false
C29_Witness ==
    /\ spc = "article" /\ ~art.raises
    /\ Len(items) = 1
    /\ ~items[1].parse_ok
    /\ items[1].parse_error = text_of(<<"C","o","n","t","e","n","t"," ","v","a","l","i","d","a","t","i","o","n"," ","f","a","i","l","e","d"," ","(","t","o","o"," ","s","h","o","r","t"," ","o","r"," ","i","n","v","a","l","i","d",")">>)

(***************************************************************************)
(* Claims about the extractors (SpecExtract).                              *)
(***************************************************************************)
\* the confidence of the article extract() returned
returned_confidence == extracted.value[1].confidence

\* C4: every ExtractedArticle an extractor returns has a confidence in
\* [0.0, 1.0], and constructing one with a confidence outside that range
\* fails with a ValueError instead of producing a value.
C4_ConfidenceInRange ==
    /\ xpc = "returned" => (returned_confidence >= 0 /\ returned_confidence <= 100)
    /\ xpc \in {"constructed", "rejected"} =>
          ((xpc = "rejected") <=> (given[1].confidence < 0 \/ given[1].confidence > 100))
    /\ xpc = "rejected" =>
          (extracted.raised /\ extracted.exception = "ValueError" /\ extracted.value = <<>>)
    /\ xpc = "constructed" => (~extracted.raised /\ extracted.value = given)

C4_Witness ==
    /\ xpc = "rejected"
    /\ given[1].confidence > 100
    /\ extracted.raised

\* a page with no title and no extractable body: no h1, no og:title, no
\* paragraph, and no NewsArticle/Article object with a headline or an
\* articleBody
NoTitleNoBody(response) ==
    /\ ~truthy(clean_text(response.h1))
    /\ ~truthy(clean_text(response.og_title))
    /\ response.paragraphs = <<>>
    /\ \A i \in 1..Len(extract_json_ld(response.scripts)) :
          is_article_item(extract_json_ld(response.scripts)[i]) =>
              /\ ~truthy(extract_json_ld(response.scripts)[i]["headline"])
              /\ ~truthy(extract_json_ld(response.scripts)[i]["articleBody"])

\* the failure floor of each site, in hundredths
Floors ==
    [ap |-> 50, foxnews |-> 50, nyt |-> 50, bbc |-> 60, cbs |-> 60, cnn |-> 60,
     nbc |-> 60, guardian |-> 65]

\* C5: for every extractor, a page with no title and no extractable body
\* yields a result whose confidence is at or below the site's failure floor
\* and whose errors list has at least one entry.
C5_TotalFailure ==
    (xpc \in {"returned", "raised"} /\ NoTitleNoBody(html)) =>
        /\ xpc = "returned"
        /\ returned_confidence <= Floors[site]
        /\ extracted.value[1].errors # <<>>

\* C6: extract() of every extractor returns an ExtractedArticle and never
\* raises, whatever the DOM and whatever JSON value the fields of the
\* JSON-LD objects hold.
C6_NeverRaises == xpc # "raised"

\* the documented cap of each capped site, in hundredths
SiteCaps == [bbc |-> 90, foxnews |-> 75, nyt |-> 70]

\* C7: the BBC extractor never returns a confidence above 0.90, the Fox News
\* extractor never above 0.75 and the NYT extractor never above 0.70.
C7_SiteCaps ==
    (xpc = "returned" /\ site \in DOMAIN SiteCaps) =>
        returned_confidence <= SiteCaps[site]

C7_Witness ==
    /\ xpc = "returned"
    /\ site = "foxnews"
    /\ returned_confidence = 75
    /\ truthy(extracted.value[1].author)
    /\ extracted.value[1].body.size > 500
    /\ extract_json_ld(html.scripts) # <<>>

\* the NewsArticle/Article objects of the page's JSON-LD
article_items(response) == SelectSeq(extract_json_ld(response.scripts), is_article_item)

\* C13: whenever the CBS extractor returns a result whose extraction_method
\* is "jsonld_full", the result's confidence is exactly 1.0 and its body is
\* the non-empty articleBody of a JSON-LD NewsArticle/Article object.
C13_JsonLdFull ==
    ( /\ xpc = "returned" /\ site = "cbs"
      /\ extracted.value[1].extraction_method = "jsonld_full" )
        => /\ returned_confidence = 100
           /\ truthy(extracted.value[1].body)
           /\ \E i \in 1..Len(article_items(html)) :
                 extracted.value[1].body = clean_text(article_items(html)[i]["articleBody"])

\* the NewsArticle object the AP extractor reads
ap_article(response) == _find_news_article(extract_json_ld(response.scripts))

\* the body the AP extractor's selectors give
ap_dom_body(response) ==
    normalize_paragraphs(or_else(getall(response, ".RichTextStoryBody p::text"),
                                 getall(response, "article p::text")))

\* C14: for every page with a JSON-LD NewsArticle object that has a headline
\* and with a DOM body of more than 500 characters, the AP extractor returns
\* extraction_method "hybrid", confidence 0.95, the JSON-LD headline as the
\* title, the parsed datePublished as published_at (when it parses), and no
\* errors.
C14_ApHybrid ==
    ( /\ xpc \in {"returned", "raised"} /\ site = "ap"
      /\ ap_article(html) # <<>>
      /\ truthy(clean_text(ap_article(html)[1]["headline"]))
      /\ ap_dom_body(html).size > 500 )
        => /\ xpc = "returned"
           /\ extracted.value[1].extraction_method = "hybrid"
           /\ returned_confidence = 95
           /\ extracted.value[1].title = clean_text(ap_article(html)[1]["headline"])
           /\ extracted.value[1].errors = <<>>
           /\ ( /\ ap_article(html)[1]["datePublished"].type = "str"
                /\ parse_datetime_from_meta(ap_article(html)[1]["datePublished"]).value[1] # <<>> )
              => extracted.value[1].published_at =
                     parse_datetime_from_meta(ap_article(html)[1]["datePublished"]).value[1]

\* the titles, authors and publication dates that the NewsArticle/Article
\* objects of the page's JSON-LD supply
ld_titles(response) ==
    { clean_text(article_items(response)[i]["headline"]) :
        i \in { j \in 1..Len(article_items(response)) :
                  truthy(clean_text(article_items(response)[j]["headline"])) } }

ld_authors(response) ==
    { author_step(locals("hybrid"), article_items(response)[i]).author :
        i \in { j \in 1..Len(article_items(response)) :
                  truthy(author_step(locals("hybrid"), article_items(response)[j]).author) } }

ld_dates(response) ==
    { parse_datetime_from_meta(article_items(response)[i]["datePublished"]).value[1] :
        i \in { j \in 1..Len(article_items(response)) :
                  /\ article_items(response)[j]["datePublished"].type = "str"
                  /\ parse_datetime_from_meta(
                         article_items(response)[j]["datePublished"]).value[1] # <<>> } }

\* C15: in every extractor, a title, author or publication date that a
\* JSON-LD NewsArticle/Article object of the page supplies is the one the
\* result carries, whatever the DOM (h1, meta author, byline, time,
\* article:published_time) supplies for the same field.
C15_JsonLdBeforeDom ==
    xpc = "returned" =>
        /\ ld_titles(html) # {} => extracted.value[1].title \in ld_titles(html)
        /\ ld_authors(html) # {} => extracted.value[1].author \in ld_authors(html)
        /\ ld_dates(html) # {} => extracted.value[1].published_at \in ld_dates(html)

\* the error texts of the AP extractor that contain "not found"
NotFoundErrors == { "Title not found in JSON-LD or DOM" }

\* C26: a result of the AP extractor with confidence >= 0.90 has no error
\* that contains "not found": high confidence never comes with a missing
\* title or body.
C26_ApNoCriticalErrors ==
    (site = "ap" /\ xpc = "returned" /\ extracted.value[1].confidence >= 90) =>
        /\ \A i \in 1..Len(extracted.value[1].errors) :
                extracted.value[1].errors[i] \notin NotFoundErrors
        /\ truthy(extracted.value[1].title)
        /\ truthy(extracted.value[1].body)

\* C27: the body returned by the Fox News extractor never contains a
\* "WATCH:" promotional line, also when every .article-body paragraph was
\* filtered out and the `article p` fallback gave the body.
C27_FoxNoWatchLine ==
    (site = "foxnews" /\ xpc = "returned") =>
        ~contains_phrase(extracted.value[1].body.text, <<"W","A","T","C","H",":">>)

\* the wall-clock fields of a datetime are those of the UTC moment
same_fields(dt, utc) ==
    /\ dt.year = utc.year /\ dt.month = utc.month /\ dt.day = utc.day
    /\ dt.hour = utc.hour /\ dt.minute = utc.minute /\ dt.second = utc.second

\* what parse_datetime_from_meta returned is None when the string names no
\* moment, and otherwise the moment in UTC (a datetime without tzinfo counts
\* as UTC; month names are not among its formats); value[1] is <<>> for None
\* and holds the datetime otherwise
meta_normalized ==
    /\ ~metaParsed[1].raised
    /\ stamp.utc = <<>> => metaParsed[1].value[1] = <<>>
    /\ (stamp.utc # <<>> /\ metaParsed[1].value[1] = <<>>) => stamp.kind = "words"
    /\ (stamp.utc # <<>> /\ metaParsed[1].value[1] # <<>>) =>
        /\ metaParsed[1].value[1][1].aware => metaParsed[1].value[1][1].utcoffset = 0
        /\ same_fields(metaParsed[1].value[1][1], stamp.utc[1])

\* the same for parse_iso8601_date, whose timestamp is the text
\* YYYY-MM-DDTHH:MM:SSZ
iso_normalized ==
    /\ ~isoParsed[1].raised
    /\ stamp.utc = <<>> => isoParsed[1].value = None
    /\ stamp.utc # <<>> => isoParsed[1].value = strftime(stamp.utc[1])

\* C17: for every input string both parsers give None or the timestamp
\* normalized to UTC: an input with a UTC offset is converted to the same
\* moment in UTC, an input without timezone is taken as UTC, a date-only
\* input becomes midnight UTC, and an unparseable input gives None.
C17_DatesNormalized ==
    /\ metaParsed # <<>> => meta_normalized
    /\ isoParsed # <<>> => iso_normalized
(***************************************************************************)
(* Failure record claims.                                                  *)
(***************************************************************************)
\* C30: two pages of one source with different canonical URLs that both end
\* in a parse exception give records with different url_hash values and
\* different fingerprint values.
C30_FailuresDistinct ==
    ( /\ flc = "done"
      /\ Len(failedA) = 1 /\ Len(failedB) = 1
      /\ failedA[1].source = failedB[1].source
      /\ canonicalize_url_clean(pageA.url) # canonicalize_url_clean(pageB.url) )
        => /\ failedA[1].url_hash # failedB[1].url_hash
           /\ failedA[1].fingerprint # failedB[1].fingerprint

\* the url_hash half alone
FailureUrlHashesDistinct ==
    ( /\ flc = "done"
      /\ Len(failedA) = 1 /\ Len(failedB) = 1
      /\ canonicalize_url_clean(pageA.url) # canonicalize_url_clean(pageB.url) )
        => failedA[1].url_hash # failedB[1].url_hash


(***************************************************************************)
(* Fingerprint claims.                                                     *)
(***************************************************************************)
\* text and len(text) > 0
has_body(call) == call.text # None /\ text_len(call.text) > 0

\* C11: _compute_fingerprint depends only on its basis.  Two calls with a
\* non-empty body, the same title and the same first 2000 body characters
\* return the same fingerprint, whatever published_at, source and the rest of
\* the body are; two calls without a body (None or empty) and with the same
\* title, published_at and source return the same fingerprint.
C11_FingerprintBasis ==
    fpc = "done" =>
        /\ ( /\ has_body(callA) /\ has_body(callB)
             /\ callA.title = callB.title
             /\ text_prefix(callA.text, 2000) = text_prefix(callB.text, 2000) )
           => printA = printB
        /\ ( /\ ~has_body(callA) /\ ~has_body(callB)
             /\ callA.title = callB.title
             /\ callA.published_at = callB.published_at
             /\ callA.source = callB.source )
           => printA = printB

\* two bodies that differ after their first 2000 characters, with different
\* dates and sources, and one fingerprint
C11_Witness ==
    /\ fpc = "done"
    /\ has_body(callA) /\ has_body(callB)
    /\ callA.text # callB.text
    /\ text_len(callA.text) > 2000 /\ text_len(callB.text) > 2000
    /\ callA.published_at # callB.published_at
    /\ callA.source # callB.source
    /\ printA = printB

\* the lines of a text, each ended by a newline; what follows the last
\* newline is a line of its own
RECURSIVE text_lines(_, _, _)
text_lines(bytes, line, lines) ==
    IF Len(bytes) = 0 THEN (IF Len(line) = 0 THEN lines ELSE Append(lines, line))
    ELSE IF bytes[1] = NEWLINE THEN text_lines(Tail(bytes), <<>>, Append(lines, line))
    ELSE text_lines(Tail(bytes), Append(line, bytes[1]), lines)

\* the string a JSON string body stands for, <<"invalid">> if it is none
RECURSIVE json_unescape(_, _)
json_unescape(s, read) ==
    IF Len(s) = 0 THEN read
    ELSE IF s[1] = QUOTE THEN <<"invalid">>
    ELSE IF s[1] # BACKSLASH THEN json_unescape(Tail(s), Append(read, s[1]))
    ELSE IF Len(s) < 2 THEN <<"invalid">>
    ELSE IF s[2] = "n" THEN json_unescape(Tail(Tail(s)), Append(read, NEWLINE))
    ELSE IF s[2] \in {QUOTE, BACKSLASH} THEN json_unescape(Tail(Tail(s)), Append(read, s[2]))
    ELSE <<"invalid">>

\* json.loads of a line written by the sink: the item, or an item whose
\* title is <<"invalid">>
json_loads(line) ==
    IF /\ Len(line) >= Len(JSON_OPENING) + Len(JSON_CLOSING)
       /\ SubSeq(line, 1, Len(JSON_OPENING)) = JSON_OPENING
       /\ SubSeq(line, Len(line) - Len(JSON_CLOSING) + 1, Len(line)) = JSON_CLOSING
    THEN [title |-> json_unescape(SubSeq(line, Len(JSON_OPENING) + 1,
                                         Len(line) - Len(JSON_CLOSING)), <<>>)]
    ELSE [title |-> <<"invalid">>]

\* the items read back from the output file
read_back(bytes) ==
    [i \in 1..Len(text_lines(bytes, <<>>, <<>>)) |->
        json_loads(text_lines(bytes, <<>>, <<>>)[i])]

\* C19: a send on a sink that is not open leaves the output file as it was;
\* close leaves the sink closed, any number of times; and when an open sink
\* is closed the output file holds one JSON line for each item sent since
\* an open (the first one after the previous close, or a later one), in
\* send order, and nothing else.
C19_JsonlLifecycle ==
    /\ (lastCall.op = "send" /\ ~lastCall.was_open) =>
            (output = lastCall.before /\ _file = <<>>)
    /\ lastCall.op = "close" => _file = <<>>
    /\ (lastCall.op = "close" /\ lastCall.was_open) =>
            /\ output.exists
            /\ \E k \in 1..(Len(window) + 1) :
                    read_back(output.bytes) = SubSeq(window, k, Len(window))

\* the items handed to process_item, in order
offered == [i \in 1..Len(deliveries) |-> deliveries[i].item]

\* C18: once open_spider has returned, every process_item call invokes the
\* sink's send exactly once with its item and returns that item, also when
\* send raised; the sink has been given every item offered so far, in
\* order, whatever happened to the earlier ones.
C18_AttemptedOnce ==
    /\ \A i \in 1..Len(deliveries) :
        deliveries[i].ready =>
            /\ deliveries[i].sends = <<deliveries[i].item>>
            /\ deliveries[i].outcome = returns(deliveries[i].item)
    /\ ppc \in {"open", "closed"} => sinkLog = offered

\* a send raised and the items after it were attempted all the same
C18_Witness ==
    /\ ppc \in {"open", "closed"}
    /\ Len(deliveries) = MaxItems
    /\ deliveries[1].item \in pipeline.sink.failing
    /\ deliveries[2].item \notin pipeline.sink.failing
    /\ deliveries[3].item \in pipeline.sink.failing
    /\ logged >= 2

(***************************************************************************)
(* Site spider claims.                                                     *)
(***************************************************************************)
\* a page with no og:type, no <article> tag and no other article marker
NoMarkers(response) ==
    /\ response.og_type = "none"
    /\ ~response.has_article_tag
    /\ ~response.has_article_indicator
    /\ response.data_page_type = <<>>
    /\ response.body_class = <<>>

\* the URL is one of the spider's start URLs or a section root of its site
IsSectionRoot(name, url) ==
    \E path \in start_paths(name) \cup RootPaths : url = site_root(name) \o path

\* C12: for the base spider and every site spider, an HTML page with no
\* og:type, no <article> tag and no other article marker whose URL is a
\* section root or one of the spider's start URLs is classified as not an
\* article by is_article_page.
C12_SectionRootNotArticle ==
    (stc = "page" /\ NoMarkers(landed) /\ IsSectionRoot(crawler, landed.url))
        => ~pageVerdict

\* C20: for every spider that overrides is_article_url and every URL that
\* neither the site's reject patterns nor its accept patterns match, the
\* site's is_article_url answers what NewsSpider.is_article_url answers.
C20_FallsBackToBase ==
    ( /\ stc \in {"url", "page"}
      /\ crawler \in Overriding
      /\ ~spider_rejects(crawler, landed.url)
      /\ ~spider_accepts(crawler, landed.url) )
        => urlVerdict = baseUrlVerdict

\* the path of the URL is /news/<slug> or /news/<slug>/ with a slug that is
\* not empty and holds no "/"
one_slug(rest) ==
    /\ Len(rest) > 0 /\ rest[1] # "/"
    /\ \A i \in 1..(Len(rest) - 1) : rest[i] # "/"

is_news_slug(m) == m.ok /\ StartsWith(m.tail, <<"n","e","w","s","/">>) /\ one_slug(From(m.tail, 6))

\* the /news root, a section root, or a URL with a video, live or essentials
\* segment
cbs_never_story(url) ==
    \/ is_section_root(url, { <<"n","e","w","s">>, <<"u","s">>, <<"w","o","r","l","d">>, <<"p","o","l","i","t","i","c","s">>, <<"m","o","n","e","y","w","a","t","c","h">> })
    \/ has_segment(Lower(url), { <<"v","i","d","e","o">>, <<"l","i","v","e">>, <<"e","s","s","e","n","t","i","a","l","s">> })

\* C21: CBSNewsSpider.is_article_url accepts every URL of the form
\* /news/<slug> with a non-empty slug, with or without a final slash and
\* whatever the slug's length, and rejects the /news root, the section roots
\* and every URL with a /video/, /live/ or /essentials/ segment.
C21_CbsNewsSlug ==
    (stc \in {"url", "page"} /\ crawler = "cbsnews") =>
        /\ (is_news_slug(after_host(Lower(landed.url))) /\ ~cbs_never_story(landed.url))
                => urlVerdict
        /\ cbs_never_story(landed.url) => ~urlVerdict

\* the Content-Type names xml or json
is_feed_type(response) ==
    \/ Contains(Lower(response.content_type), <<"x","m","l">>)
    \/ Contains(Lower(response.content_type), <<"j","s","o","n">>)

\* og:type is article, or the page has an <article> tag or a content block
has_article_marker(response) ==
    \/ response.og_type = "article"
    \/ response.has_article_tag
    \/ response.has_article_indicator

\* C23: the base is_article_page rejects a response whose Content-Type
\* holds xml or json, and otherwise accepts a page whose og:type is article
\* or that has an <article> tag or a known content block, whatever its URL.
C23_MarkersDecide ==
    (stc = "page" /\ crawler = "news_scraper") =>
        /\ is_feed_type(landed) => ~pageVerdict
        /\ (~is_feed_type(landed) /\ has_article_marker(landed)) => pageVerdict
====
